---------------------------- MODULE Spec2Model ----------------------------
(***************************************************************************)
(* A model of the nash evaluator (internal/sh/shell.go): the scope chain   *)
(* of Shell objects with its variable and environment maps, the pipeline   *)
(* executor executePipe, the for loops with the SIGINT listener, the tree  *)
(* walk, executeCommand with its redirections, import and exec-assign, and *)
(* of the parser (ast/tree.go).                                            *)
(*                                                                         *)
(* The specifications share the variables; each one drives one part of     *)
(* the evaluator and leaves the other parts in their initial state:        *)
(*   SpecScope  GetVar / Setvar / Getenv / Setenv over a chain of shells   *)
(*   SpecPipe   one execution of executePipe over every pipeline shape     *)
(*   SpecLoop   executeFor / executeInfLoop against the signal listener    *)
(*   SpecWalk   executeTree over blocks, if/else, return and commands      *)
(*   SpecCmd    executeCommand step by step with setRedirects              *)
(*   SpecImport executeImport over a small file system                     *)
(*   SpecAssign executeExecAssign with the split of the output by IFS      *)
(*   SpecFnFor  a function called from the body of a for statement         *)
(*   SpecEnv    initEnv and setup over the environment of the process      *)
(*   SpecBind   getCommand on a command bound with bindfn                  *)
(*   SpecIf     parseIf and executeIf over one if statement                *)
(*   SpecParse  Parse over every source of a few tokens                    *)
(*   SpecReparse  Parse, and Parse again of the string form of its tree    *)
(***************************************************************************)
EXTENDS Integers, Sequences, FiniteSets, TLC

VARIABLES
    \* ---- scopes (Shell.parent, Shell.vars, Shell.env, the process env)
    nshells,      \* number of Shell objects created so far; shell 1 is the root
    parent,       \* parent[s]: Shell.parent, NoShell for the root
    vars,         \* vars[s][n]: Shell.vars
    env,          \* env[s][n]: Shell.env
    osenv,        \* osenv[n]: the process environment (os.Setenv)
    last,         \* the operation the last step performed, with its arguments
    \* ---- one execution of executePipe
    pN,           \* len(pipe.Commands())
    minus,        \* minus[i]: the name of command i is written with a leading '-'
    ppc,          \* the place executePipe has reached
    pi,           \* the loop index i (stages are numbered from 1)
    cods,         \* cods[i]: the per-stage status codes
    errs,         \* errs[i]: the per-stage messages
    igns,         \* igns[i]: ignoreErrors
    errIndex,     \* the stage the error belongs to
    perr,         \* err: the error that led to pipeError
    phase,        \* the call that returned perr ("none" while there is none)
    started,      \* the stages whose Start succeeded
    exitc,        \* exitc[i]: how the runner of a started stage ends
    waited,       \* the stages whose Wait was called, in call order
    closeAfterWait, \* the stages that registered an opened stream for closing
    closedAt,     \* Len(waited) when the deferred close ran, NotYet before
    status,       \* the variable status of the current scope
    ret,          \* what executePipe returned
    \* ---- for loops and the signal listener
    interrupted,  \* Shell.interrupted of the root
    looping,      \* looping[s]: Shell.looping of shell s
    mutex,        \* who holds the sync.Mutex shared by the root and its subshells
    sigs,         \* SIGINTs buffered in the listener's channel (capacity 1)
    lpc,          \* the place the listener goroutine has reached
    stack,        \* the activations of executeFor, the innermost last
    eres,         \* what the last top-level for statement returned
    \* ---- one walk of a tree by executeTree
    wstack,       \* the activations of executeTree, the innermost last
    wfn,          \* sh.IsFn() of the shell the walk runs in
    pend,         \* what executeNode returned to the innermost walk, if it did
    wres,         \* what the outermost executeTree returned
    wstatus,      \* the variable status of the shell the walk runs in
    retv,         \* the return statement this walk has executed, if it has
    afterRet,     \* a node was executed after that return statement
    wlast,        \* the node executeNode was called on last
    \* ---- one execution of executeCommand with its redirections
    cminus,       \* the name of the command is written with a leading '-'
    rleft,        \* the redirections of the command not yet built
    cpc,          \* the place executeCommand has reached
    cout,         \* the runner's stdout: the shell's stream or an opened one
    cerr,         \* the runner's stderr
    streams,      \* the streams opened so far: kind, still open
    caw,          \* closeAfterWait: the opened streams registered for closing
    cerrv,        \* err: the error that led to cmdError
    crun,         \* the runner: "idle", "running", "finished"
    cret,         \* status and the error executeCommand returned
    clast,        \* the map [l=r] buildRedirect was called on last
    cearly,       \* a stream was closed while the runner was running
    \* ---- one execution of executeImport
    ifname,       \* the string the argument of import evaluates to
    icur,         \* sh.currentFile ("" when no file is being executed)
    inash,        \* NASHPATH in the root environment (NilObj when not set)
    ifs,          \* the file system: "missing", "dir" or "file" for each path
    ipc,          \* the place executeImport has reached
    itries,       \* tries
    iidx,         \* the index of the loop over tries
    iexec,        \* the paths ExecFile was called on, in call order
    iret,         \* what executeImport returned
    \* ---- one execution of executeExecAssign
    akind,        \* the kind of node on the right of "<="
    aifs,         \* what GetVar("IFS") finds (NilObj when it is not bound)
    aorig,        \* the writer sh.stdout was before the statement
    awrite,       \* what the command or pipe writes to its stdout
    astdout,      \* sh.stdout
    abk,          \* bkStdout
    abuf,         \* the contents of varOut
    awritten,     \* what has been written to the writer aorig
    abound,       \* what the identifier is bound to (NilObj when it is not)
    aret,         \* what executeExecAssign returned
    apc,          \* the place executeExecAssign has reached
    \* ---- a function body with for statements (executeTree, executeFor)
    rstack,       \* the walks and the for statements of the function body, the innermost last
    rpend,        \* what was returned to the innermost of them, if something was
    rres,         \* what the walk of the function body returned
    rintr,        \* Shell.interrupted of the root
    rdirect,      \* the last return executed outside of every for body
    rhist,        \* how far a return inside a for body has come
    \* ---- NewShell: setup and initEnv
    eproc,        \* os.Environ(), the entries of the process environment
    eidx,         \* the index of the loop over processEnv
    eenv,         \* Shell.env of the root
    evars,        \* Shell.vars of the root
    epc,          \* the place NewShell has reached
    eret,         \* what NewShell returned
    \* ---- bindfn and getCommand on one command node
    bbinds,       \* bbinds[s][c]: Shell.binds of shell s
    bnode,        \* the CommandNode c: its name, its arguments
    bres,         \* what getCommand returned last, and on what
    \* ---- one if statement: parseIf and executeIf
    cndSrc,       \* the statement as written: the operand tokens, the operator, an else block or not
    cndNode,      \* the IfNode parseIf built
    cndBound,     \* what the variables a and b are bound to in the scope
    cndPc,        \* the place the statement has reached
    cndBlock,     \* the block executeIf chose
    cndRan,       \* the blocks that were executed
    cndErr,       \* executeIf returned an error of its own
    \* ---- Parser (ast/tree.go) over a lazily lexed source
    round,        \* 1 while the source is parsed, 2 while its printed tree is parsed
    content,      \* the tokens the scanner still holds of the printed tree (round 2)
    lexed,        \* number of tokens the scanner has emitted of the source (round 1)
    tok,          \* Parser.tok, the one-slot lookahead buffer
    openblocks,   \* Parser.openblocks
    insidePipe,   \* Parser.insidePipe
    calls,        \* the parse functions in progress, the innermost first
    result,       \* what Parse returned: running, ok or error
    root,         \* tr.Root of the tree parsed from the source
    reroot,       \* tr.Root of the tree parsed from the printed tree
    braces,       \* the brace tokens the scanner has emitted in this round
    blocks,       \* the blocks the parser has opened and closed in this round
    seen          \* the token the last step of the parser read

scopeVars == <<nshells, parent, vars, env, osenv, last>>

pipeVars == <<pN, minus, ppc, pi, cods, errs, igns, errIndex, perr, phase,
              started, exitc, waited, closeAfterWait, closedAt, status, ret>>

loopVars == <<interrupted, looping, mutex, sigs, lpc, stack, eres>>

walkVars == <<wstack, wfn, pend, wres, wstatus, retv, afterRet, wlast>>

cmdVars == <<cminus, rleft, cpc, cout, cerr, streams, caw, cerrv, crun, cret,
             clast, cearly>>

impVars == <<ifname, icur, inash, ifs, ipc, itries, iidx, iexec, iret>>

asgVars == <<akind, aifs, aorig, awrite, astdout, abk, abuf, awritten, abound,
             aret, apc>>

retVars == <<rstack, rpend, rres, rintr, rdirect, rhist>>

envVars == <<eproc, eidx, eenv, evars, epc, eret>>

bindVars == <<bbinds, bnode, bres>>

cndVars == <<cndSrc, cndNode, cndBound, cndPc, cndBlock, cndRan, cndErr>>

parseVars == <<round, content, lexed, tok, openblocks, insidePipe, calls,
               result, root, reroot, braces, blocks, seen>>

vars_all == <<scopeVars, pipeVars, loopVars, walkVars, cmdVars, impVars,
              asgVars, retVars, envVars, bindVars, cndVars, parseVars>>

\* what a step of one part of the evaluator leaves alone
ScopeOnly == UNCHANGED <<pipeVars, loopVars, walkVars, cmdVars, impVars,
                         asgVars, retVars, envVars, bindVars, cndVars,
                         parseVars>>
PipeOnly == UNCHANGED <<scopeVars, loopVars, walkVars, cmdVars, impVars,
                        asgVars, retVars, envVars, bindVars, cndVars,
                        parseVars>>
LoopOnly == UNCHANGED <<scopeVars, pipeVars, walkVars, cmdVars, impVars,
                        asgVars, retVars, envVars, bindVars, cndVars,
                        parseVars>>
WalkOnly == UNCHANGED <<scopeVars, pipeVars, loopVars, cmdVars, impVars,
                        asgVars, retVars, envVars, bindVars, cndVars,
                        parseVars>>
CmdOnly == UNCHANGED <<scopeVars, pipeVars, loopVars, walkVars, impVars,
                       asgVars, retVars, envVars, bindVars, cndVars, parseVars>>
ImpOnly == UNCHANGED <<scopeVars, pipeVars, loopVars, walkVars, cmdVars,
                       asgVars, retVars, envVars, bindVars, cndVars, parseVars>>
AsgOnly == UNCHANGED <<scopeVars, pipeVars, loopVars, walkVars, cmdVars,
                       impVars, retVars, envVars, bindVars, cndVars, parseVars>>
RetOnly == UNCHANGED <<scopeVars, pipeVars, loopVars, walkVars, cmdVars,
                       impVars, asgVars, envVars, bindVars, cndVars, parseVars>>
EnvOnly == UNCHANGED <<scopeVars, pipeVars, loopVars, walkVars, cmdVars,
                       impVars, asgVars, retVars, bindVars, cndVars, parseVars>>
BindOnly == UNCHANGED <<scopeVars, pipeVars, loopVars, walkVars, cmdVars,
                        impVars, asgVars, retVars, envVars, cndVars, parseVars>>
CndOnly == UNCHANGED <<scopeVars, pipeVars, loopVars, walkVars, cmdVars,
                       impVars, asgVars, retVars, envVars, bindVars, parseVars>>
ParseOnly == UNCHANGED <<scopeVars, pipeVars, loopVars, walkVars, cmdVars,
                         impVars, asgVars, retVars, envVars, bindVars, cndVars>>

(***************************************************************************)
(* Bounds of the model.                                                    *)
(***************************************************************************)
MaxShells == 3
MaxStages == 3
MaxDepth == 2     \* for statements nested in one another
MaxIter == 2      \* elements of the list a for statement ranges over
MaxNodes == 2     \* nodes of one block (a ListNode)
MaxNest == 3      \* a tree walk with the walks of the if/else blocks nested in it
MaxRedirs == 2    \* redirections of one command
MaxOut == 3       \* characters a command writes to its stdout

(***************************************************************************)
(* Objects (Obj): a string or a list of strings; NilObj is the nil *Obj    *)
(* that a failed map lookup yields.                                        *)
(***************************************************************************)
Names == {"a"}

NilObj == [type |-> "nil"]

NewStrObj(s) == [type |-> "string", str |-> s]

NewListObj(l) == [type |-> "list", list |-> l]

Objs == {NewStrObj("u"), NewStrObj("w"), NewListObj(<<"u", "w">>)}

\* Obj.String(): a string is itself, a list is its elements joined by a blank.
RECURSIVE JoinStr(_, _)
JoinStr(l, sep) ==
    IF Len(l) = 0 THEN ""
    ELSE IF Len(l) = 1 THEN l[1]
    ELSE l[1] \o sep \o JoinStr(Tail(l), sep)

ObjString(o) == IF o.type = "string" THEN o.str ELSE JoinStr(o.list, " ")

NoShell == 0
Root == 1
Shells == 1..MaxShells
Alive == 1..nshells

EmptyMap == [n \in Names |-> NilObj]

\* the process environment: <<set, value>>
NoEnv == <<FALSE, "">>

(***************************************************************************)
(* The parts of the evaluator a specification does not drive stay as they  *)
(* are before any statement is executed.                                   *)
(***************************************************************************)
NoCode == -1
NotYet == -1
NoErr == [msg |-> "", code |-> NoCode]

ScopeIdle ==
    /\ nshells = 1
    /\ parent = [s \in Shells |-> NoShell]
    /\ vars = [s \in Shells |-> EmptyMap]
    /\ env = [s \in Shells |-> EmptyMap]
    /\ osenv = [n \in Names |-> NoEnv]
    /\ last = [op |-> "NewShell", sh |-> Root, name |-> "a", val |-> NilObj, ok |-> TRUE]

PipeIdle ==
    /\ pN = 0 /\ minus = <<>> /\ ppc = "idle" /\ pi = 0
    /\ cods = <<>> /\ errs = <<>> /\ igns = <<>>
    /\ errIndex = 0 /\ perr = NoErr /\ phase = "none"
    /\ started = {} /\ exitc = <<>> /\ waited = <<>>
    /\ closeAfterWait = {} /\ closedAt = NotYet
    /\ status = "" /\ ret = [state |-> "running", msg |-> ""]

\* the shell a function body runs in (NewSubShell with the root as parent)
FnShell == 2

LoopIdle ==
    /\ interrupted = FALSE
    /\ looping = [s \in {Root, FnShell} |-> FALSE]
    /\ mutex = "free" /\ sigs = 0 /\ lpc = "recv"
    /\ stack = <<>> /\ eres = "none"

\* (obj, err) as executeNode and executeTree return them; err is "nil", an
\* ordinary "error", or one of the carriers "ignore", "interrupted", "stop"
NoRes == [set |-> FALSE, obj |-> NilObj, err |-> "nil"]
Res(o, e) == [set |-> TRUE, obj |-> o, err |-> e]
NoReturn == [set |-> FALSE, obj |-> NilObj, depth |-> 0, rest |-> 0]
Node(k, m, e) == [kind |-> k, minus |-> m, e |-> e]

\* the redirect sentinels of the ast package
RedirMapNoValue == -1
RedirMapSupress == -2
NoRedirect == [l |-> RedirMapNoValue, r |-> RedirMapNoValue]
NoResult == [status |-> "", err |-> "running"]

\* what a runner writes to: the shell's own stdout (1) or stderr (2), or the
\* i-th stream opened for a redirection
ShStream(fd) == [sh |-> TRUE, id |-> fd]
Opened(i) == [sh |-> FALSE, id |-> i]

CmdIdle ==
    /\ cminus = FALSE /\ rleft = 0 /\ cpc = "idle"
    /\ cout = ShStream(1) /\ cerr = ShStream(2)
    /\ streams = <<>> /\ caw = <<>>
    /\ cerrv = NoErr /\ crun = "idle" /\ cret = NoResult
    /\ clast = NoRedirect /\ cearly = FALSE

AsgIdle ==
    /\ akind = "none" /\ aifs = NilObj /\ aorig = "os.Stdout" /\ awrite = ""
    /\ astdout = "os.Stdout" /\ abk = "os.Stdout"
    /\ abuf = "" /\ awritten = "" /\ abound = NilObj
    /\ aret = "none" /\ apc = "idle"

ImpIdle ==
    /\ ifname = "" /\ icur = "" /\ inash = NilObj
    /\ ifs = <<>> /\ ipc = "idle"
    /\ itries = <<>> /\ iidx = 0 /\ iexec = <<>> /\ iret = "none"

WalkIdle ==
    /\ wstack = <<>> /\ wfn = FALSE
    /\ pend = NoRes /\ wres = NoRes /\ wstatus = ""
    /\ retv = NoReturn /\ afterRet = FALSE
    /\ wlast = Node("none", FALSE, NoErr)

RetIdle ==
    /\ rstack = <<>> /\ rpend = NoRes /\ rres = NoRes
    /\ rintr = FALSE /\ rdirect = NoRes /\ rhist = "none"

\* the names the start of a shell may bind
EnvNames == {"a", "b", "argv", "PID", "SHELL", "PWD", "PROMPT"}

EnvIdle ==
    /\ eproc = <<>> /\ eidx = 0
    /\ eenv = [n \in EnvNames |-> NilObj]
    /\ evars = [n \in EnvNames |-> NilObj]
    /\ epc = "idle" /\ eret = "none"

\* the names of commands; no function (a nil Fn, or none asked for)
CmdNames == {"hi", "ho"}
NoFn == -1

\* a CommandNode: the name without the leading '-', whether it had one, the
\* arguments as they were parsed and the empty strings appended since
CmdNode(c, m, n) == [name |-> c, minus |-> m, written |-> n, padded |-> 0]
NoCmd == [kind |-> "none", lookup |-> "none", fn |-> NoFn, args |-> 0,
          given |-> 0, ignore |-> FALSE]

BindIdle ==
    /\ bbinds = [s \in {Root, FnShell} |-> [c \in CmdNames |-> NoFn]]
    /\ bnode = CmdNode("hi", FALSE, 0)
    /\ bres = NoCmd

\* a token of the scanner; the expressions of the ast package
Tok(ty, v) == [type |-> ty, value |-> v]
StringExpr(v, q) == [kind |-> "string", value |-> v, quoted |-> q]
VarExpr(v) == [kind |-> "var", value |-> v, quoted |-> FALSE]
NoIf == [lvalue |-> StringExpr("", TRUE), op |-> "", rvalue |-> StringExpr("", TRUE),
         elseTree |-> FALSE]
NoIfSrc == [l |-> Tok("String", ""), op |-> "", r |-> Tok("String", ""),
            else |-> FALSE]

CndIdle ==
    /\ cndSrc = NoIfSrc /\ cndNode = NoIf
    /\ cndBound = [n \in {"a", "b"} |-> NilObj]
    /\ cndPc = "idle" /\ cndBlock = "none" /\ cndRan = {} /\ cndErr = FALSE

\* the empty lookahead buffer; a node of the ast package without positions:
\* the commands of a PipeNode and the nodes of a block are in body, the
\* else block of an IfNode in els
NoTok == Tok("none", "")
NewNode(k, nm) == [kind |-> k, name |-> nm, args |-> <<>>, body |-> <<>>,
                   els |-> <<>>, has |-> FALSE, elseIf |-> FALSE]
NewListNode == NewNode("list", "")
NoBraces == [open |-> 0, close |-> 0, low |-> FALSE]
NoBlocks == [opened |-> 0, closed |-> 0]

ParseIdle ==
    /\ round = 1 /\ content = <<>> /\ lexed = 0
    /\ tok = NoTok /\ openblocks = 0 /\ insidePipe = FALSE
    /\ calls = <<>> /\ result = "running"
    /\ root = NewListNode /\ reroot = NewListNode
    /\ braces = NoBraces /\ blocks = NoBlocks /\ seen = NoTok

(***************************************************************************)
(* Lookups.                                                                *)
(***************************************************************************)
\* A faulty lookup that asks the root directly instead of walking the chain.
RECURSIVE GetVarRootOnly(_, _)
GetVarRootOnly(s, n) ==
    IF vars[s][n] # NilObj THEN <<vars[s][n], TRUE>>
    ELSE IF parent[s] # NoShell THEN <<vars[Root][n], vars[Root][n] # NilObj>>
    ELSE <<NilObj, FALSE>>

\* Shell.GetVar: own vars first, then the parent chain.
RECURSIVE GetVar(_, _)
GetVar(s, n) ==
    IF vars[s][n] # NilObj THEN <<vars[s][n], TRUE>>
    ELSE IF parent[s] # NoShell THEN GetVar(parent[s], n)
    ELSE <<NilObj, FALSE>>

\* The shell whose maps Getenv/Setenv/Environ use: the end of the parent chain.
RECURSIVE RootOf(_)
RootOf(s) == IF parent[s] # NoShell THEN RootOf(parent[s]) ELSE s

\* Shell.Getenv: delegated to the root.
Getenv(s, n) == LET r == RootOf(s) IN <<env[r][n], env[r][n] # NilObj>>

(***************************************************************************)
(* Updates.                                                                *)
(***************************************************************************)
\* A faulty Setvar that rebinds the nearest scope that already binds the name.
RECURSIVE BinderOf(_, _)
BinderOf(s, n) ==
    IF vars[s][n] # NilObj THEN s
    ELSE IF parent[s] # NoShell THEN BinderOf(parent[s], n)
    ELSE NoShell

SetvarWalking(s, n, v) ==
    LET b == BinderOf(s, n)
        t == IF b = NoShell THEN s ELSE b
    IN [vars EXCEPT ![t][n] = v]

\* Shell.Setvar: the value of vars after sh.vars[name] = value.
SetvarMap(s, n, v) == [vars EXCEPT ![s][n] = v]

\* A faulty Setenv that writes the maps of the shell it is called on.
SetenvLocal(s, n, v) ==
    /\ vars' = SetvarMap(s, n, v)
    /\ env' = [env EXCEPT ![s][n] = v]
    /\ osenv' = [osenv EXCEPT ![n] = <<TRUE, ObjString(v)>>]

\* Shell.Setenv: forwarded to the root, which sets the variable, the env entry
\* and the process environment.
SetenvEffect(s, n, v) ==
    LET r == RootOf(s) IN
    /\ vars' = SetvarMap(r, n, v)
    /\ env' = [env EXCEPT ![r][n] = v]
    /\ osenv' = [osenv EXCEPT ![n] = <<TRUE, ObjString(v)>>]

(***************************************************************************)
(* Expressions an assignment may have on its right side: a string literal, *)
(* a list literal or a variable.                                           *)
(***************************************************************************)
Exprs == [kind : {"lit"}, obj : Objs] \cup [kind : {"var"}, name : Names]

\* Shell.evalExpr / Shell.evalVariable: <<obj, ok>>
evalExpr(s, e) == IF e.kind = "lit" THEN <<e.obj, TRUE>> ELSE GetVar(s, e.name)

(***************************************************************************)
(* Operations on scopes.                                                   *)
(***************************************************************************)
Op(o, s, n, v, ok) == [op |-> o, sh |-> s, name |-> n, val |-> v, ok |-> ok]

\* NewSubShell: a fresh shell with empty maps whose parent is p.
NewSubShell(p) ==
    /\ ScopeOnly
    /\ nshells < MaxShells
    /\ nshells' = nshells + 1
    /\ parent' = [parent EXCEPT ![nshells + 1] = p]
    /\ vars' = [vars EXCEPT ![nshells + 1] = EmptyMap]
    /\ env' = [env EXCEPT ![nshells + 1] = EmptyMap]
    /\ last' = Op("NewSubShell", nshells + 1, "a", NilObj, TRUE)
    /\ UNCHANGED osenv

Setvar(s, n, v) ==
    /\ ScopeOnly
    /\ vars' = SetvarMap(s, n, v)
    /\ last' = Op("Setvar", s, n, v, TRUE)
    /\ UNCHANGED <<nshells, parent, env, osenv>>

Setenv(s, n, v) ==
    /\ ScopeOnly
    /\ SetenvEffect(s, n, v)
    /\ last' = Op("Setenv", s, n, v, TRUE)
    /\ UNCHANGED <<nshells, parent>>

\* Shell.executeAssignment: evaluate the right side, then Setvar.
executeAssignment(s, n, e) ==
    /\ ScopeOnly
    /\ LET r == evalExpr(s, e) IN
       IF r[2]
       THEN /\ vars' = SetvarMap(s, n, r[1])
            /\ last' = Op("executeAssignment", s, n, r[1], TRUE)
            /\ UNCHANGED <<nshells, parent, env, osenv>>
       ELSE /\ last' = Op("executeAssignment", s, n, NilObj, FALSE)
            /\ UNCHANGED <<nshells, parent, vars, env, osenv>>

\* Shell.executeSetenv: promote a variable that is set into the environment.
executeSetenv(s, n) ==
    /\ ScopeOnly
    /\ LET r == GetVar(s, n) IN
       IF r[2]
       THEN /\ SetenvEffect(s, n, r[1])
            /\ last' = Op("executeSetenv", s, n, r[1], TRUE)
            /\ UNCHANGED <<nshells, parent>>
       ELSE /\ last' = Op("executeSetenv", s, n, NilObj, FALSE)
            /\ UNCHANGED <<nshells, parent, vars, env, osenv>>

InitScope == ScopeIdle /\ PipeIdle /\ LoopIdle /\ WalkIdle /\ CmdIdle /\ ImpIdle /\ AsgIdle /\ RetIdle /\ EnvIdle /\ BindIdle /\ CndIdle /\ ParseIdle

NextScope ==
    \/ \E p \in Alive : NewSubShell(p)
    \/ \E s \in Alive, n \in Names, v \in Objs : Setvar(s, n, v)
    \/ \E s \in Alive, n \in Names, v \in Objs : Setenv(s, n, v)
    \/ \E s \in Alive, n \in Names, e \in Exprs : executeAssignment(s, n, e)
    \/ \E s \in Alive, n \in Names : executeSetenv(s, n)

SpecScope == InitScope /\ [][NextScope]_vars_all

(***************************************************************************)
(* Claims about the scope chain, checked under SpecScope.                  *)
(***************************************************************************)

\* C1: for a scope c with parent p and a name n that c does not bind,
\* c.GetVar(n) is exactly p.GetVar(n) (value and found flag); when c binds n,
\* c.GetVar(n) is c's own binding whatever the ancestors hold.
C1_GetVarFollowsParent ==
    \A c \in Alive, n \in Names :
        parent[c] # NoShell =>
            /\ vars[c][n] = NilObj => GetVar(c, n) = GetVar(parent[c], n)
            /\ vars[c][n] # NilObj => GetVar(c, n) = <<vars[c][n], TRUE>>

\* A shell two levels below the root finds the root's binding through an
\* unbound parent, while another shell shadows its parent's binding.
C1_Witness ==
    \E c \in Alive, n \in Names :
        /\ parent[c] # NoShell /\ parent[parent[c]] # NoShell
        /\ vars[c][n] = NilObj
        /\ vars[parent[c]][n] # NilObj
        /\ vars[parent[parent[c]]][n] # NilObj
        /\ vars[parent[c]][n] # vars[parent[parent[c]]][n]
        /\ GetVar(c, n) = <<vars[parent[c]][n], TRUE>>

\* C2: a step that is Setvar(n, v) on c, or an assignment statement executed in
\* c, leaves c.GetVar(n) = v and changes the vars of no other shell.
C2_SetvarLocal ==
    [][\A c \in Shells, n \in Names :
          (/\ last'.op \in {"Setvar", "executeAssignment"} /\ last'.ok
           /\ last'.sh = c /\ last'.name = n) =>
              /\ GetVar(c, n)' = <<last'.val, TRUE>>
              /\ \A s \in Shells \ {c} : vars'[s] = vars[s]
              /\ env' = env /\ osenv' = osenv]_vars_all

\* An assignment in a subshell to a name its parent binds to another value.
C2_Witness ==
    /\ last.op = "executeAssignment" /\ last.ok
    /\ parent[last.sh] # NoShell
    /\ vars[parent[last.sh]][last.name] # NilObj
    /\ vars[parent[last.sh]][last.name] # last.val
    /\ vars[last.sh][last.name] = last.val

\* C3: a step that is Setenv(n, v) on any shell of the chain (or a setenv
\* statement) leaves the root's env and vars mapping n to v and the process
\* environment holding n = str(v), changes the env and vars of no other shell,
\* and Getenv(n) then returns v from every shell.
C3_SetenvAtRoot ==
    [][\A n \in Names :
          (last'.op \in {"Setenv", "executeSetenv"} /\ last'.ok /\ last'.name = n) =>
              /\ env'[Root][n] = last'.val
              /\ vars'[Root][n] = last'.val
              /\ osenv'[n] = <<TRUE, ObjString(last'.val)>>
              /\ \A s \in Shells \ {Root} : env'[s] = env[s] /\ vars'[s] = vars[s]
              /\ \A s \in Alive : Getenv(s, n)' = <<last'.val, TRUE>>]_vars_all

\* Setenv of a list, called on a shell two levels below the root.
C3_Witness ==
    /\ last.op = "Setenv"
    /\ parent[last.sh] # NoShell /\ parent[parent[last.sh]] # NoShell
    /\ last.val.type = "list"
    /\ osenv[last.name] = <<TRUE, "u w">>
    /\ env[Root][last.name] = last.val
    /\ env[last.sh][last.name] = NilObj

(***************************************************************************)
(* executePipe.                                                            *)
(*                                                                         *)
(* The runners (external commands or bound functions) are outside the      *)
(* evaluator: what getCommand, SetArgs, the redirections, StdoutPipe,      *)
(* Start and Wait return is an input, drawn when the call is made.  A      *)
(* started stage ends as exitc says (0, an exit status, or a failure that  *)
(* carries no status) whether or not the evaluator ever waits for it.      *)
(***************************************************************************)
ESuccess == 0
ENotFound == 127
ENotStarted == 255

Stages == 1..pN

\* strconv.Itoa on the codes that occur
Itoa(n) ==
    CASE n = 0 -> "0"
      [] n = 1 -> "1"
      [] n = 2 -> "2"
      [] n = 127 -> "127"
      [] n = 255 -> "255"

\* the exit statuses a stage may end with, besides 0
ExitCodes == {1, 2}

\* An error returned before a stage runs: with or without a status in it.
CallErrs(what) == {[msg |-> what, code |-> c] : c \in {NoCode, 2}}

\* The error Wait returns for a stage that ended with e # 0.
WaitErr(e) ==
    IF e = NoCode THEN [msg |-> "wait failed", code |-> NoCode]
    ELSE [msg |-> "exit status " \o Itoa(e), code |-> e]

\* getErrStatus(err, def): the status the error carries, else def.
getErrStatus(e, def) == IF e.code # NoCode THEN Itoa(e.code) ELSE def

\* errors.NewError(...).Error() / a returned error / a nil error
RetRunning == [state |-> "running", msg |-> ""]
RetNil == [state |-> "nil", msg |-> ""]
RetErr(m) == [state |-> "error", msg |-> m]

\* A faulty report that maps the code of an ignored stage to 0.
PipeErrorCodsRemap(c, ig, idx, e) ==
    [c EXCEPT ![idx] = IF ig[idx] THEN "0" ELSE getErrStatus(e, c[idx])]

\* pipeError: cods[errIndex] = getErrStatus(err, cods[errIndex])
PipeErrorCods(c, ig, idx, e) == [c EXCEPT ![idx] = getErrStatus(e, c[idx])]

\* pipeError: errs[errIndex] is "none" for an ignoring stage, else err.Error()
PipeErrorErrs(es, ig, idx, e) ==
    [es EXCEPT ![idx] = IF ig[idx] THEN "none" ELSE e.msg]

\* A faulty status that always joins the codes.
PipeStatusJoin(c) == JoinStr(c, "|")

\* The value given to status: the one code when all are the same, else the
\* codes joined with '|'.
PipeStatus(c) ==
    IF Cardinality({c[i] : i \in 1..Len(c)}) = 1 THEN c[Len(c)]
    ELSE JoinStr(c, "|")

\* goto pipeError with error e of stage i, raised by call ph
GotoPipeError(i, e, ph) ==
    /\ errIndex' = i /\ perr' = e /\ phase' = ph /\ ppc' = "pipeError"

InitPipe ==
    /\ ScopeIdle /\ LoopIdle /\ WalkIdle /\ CmdIdle /\ ImpIdle /\ AsgIdle /\ RetIdle /\ EnvIdle /\ BindIdle /\ CndIdle /\ ParseIdle
    /\ pN \in 1..MaxStages
    /\ minus \in [1..pN -> BOOLEAN]
    /\ ppc = "entry" /\ pi = 1
    /\ cods = [i \in 1..pN |-> ""] /\ errs = [i \in 1..pN |-> ""]
    /\ igns = [i \in 1..pN |-> FALSE]
    /\ errIndex = 1 /\ perr = NoErr /\ phase = "none"
    /\ started = {} /\ exitc = [i \in 1..pN |-> 0] /\ waited = <<>>
    /\ closeAfterWait = {} /\ closedAt = NotYet
    /\ status = "" /\ ret = RetRunning

\* The length check and the sentinels: every stage "not started", 255.
PipeEntry ==
    /\ PipeOnly
    /\ ppc = "entry"
    /\ IF pN < 2
       THEN /\ ret' = RetErr("Pipe requires at least two commands.")
            /\ ppc' = "return"
            /\ UNCHANGED <<cods, errs>>
       ELSE /\ errs' = [i \in 1..pN |-> "not started"]
            /\ cods' = [i \in 1..pN |-> Itoa(ENotStarted)]
            /\ ppc' = "build"
            /\ UNCHANGED ret
    /\ UNCHANGED <<pN, minus, pi, igns, errIndex, perr, phase, started, exitc,
                   waited, closeAfterWait, closedAt, status>>

\* One round of the loop that creates the commands: getCommand, SetArgs and,
\* for every stage but the last, setRedirects.
BuildStage ==
    /\ PipeOnly
    /\ ppc = "build"
    /\ \/ \* getCommand fails; it still reports the minus prefix
          \E e \in CallErrs("not found") :
            /\ igns' = [igns EXCEPT ![pi] = minus[pi]]
            /\ cods' = [cods EXCEPT ![pi] = Itoa(ENotFound)]
            /\ GotoPipeError(pi, e, "getCommand")
            /\ UNCHANGED <<pi, closeAfterWait>>
       \/ \* SetArgs fails
          \E e \in CallErrs("bad arguments") :
            /\ igns' = [igns EXCEPT ![pi] = minus[pi]]
            /\ GotoPipeError(pi, e, "SetArgs")
            /\ UNCHANGED <<pi, cods, closeAfterWait>>
       \/ \* setRedirects fails, with or without a stream opened before
          /\ pi < pN
          /\ \E e \in CallErrs("redirect failed"), opened \in BOOLEAN :
            /\ igns' = [igns EXCEPT ![pi] = minus[pi]]
            /\ closeAfterWait' = IF opened THEN closeAfterWait \cup {pi}
                                 ELSE closeAfterWait
            /\ GotoPipeError(pi, e, "setRedirects")
            /\ UNCHANGED <<pi, cods>>
       \/ \* the stage is built
          \E opened \in BOOLEAN :
            /\ opened => pi < pN
            /\ igns' = [igns EXCEPT ![pi] = minus[pi]]
            /\ closeAfterWait' = IF opened THEN closeAfterWait \cup {pi}
                                 ELSE closeAfterWait
            /\ pi' = IF pi < pN THEN pi + 1 ELSE 1
            /\ ppc' = IF pi < pN THEN "build" ELSE "wire"
            /\ UNCHANGED <<cods, errIndex, perr, phase>>
    /\ UNCHANGED <<pN, minus, errs, started, exitc, waited, closedAt, status, ret>>

\* One round of the loop over cmds[:last]: StdoutPipe of stage i feeds stage i+1.
WireStage ==
    /\ PipeOnly
    /\ ppc = "wire"
    /\ \/ \E e \in CallErrs("pipe failed") : GotoPipeError(pi, e, "StdoutPipe") /\ UNCHANGED pi
       \/ /\ pi' = IF pi < pN - 1 THEN pi + 1 ELSE pN
          /\ ppc' = IF pi < pN - 1 THEN "wire" ELSE "lastRedirects"
          /\ UNCHANGED <<errIndex, perr, phase>>
    /\ UNCHANGED <<pN, minus, cods, errs, igns, started, exitc, waited,
                   closeAfterWait, closedAt, status, ret>>

\* setRedirects of the last stage.
LastRedirects ==
    /\ PipeOnly
    /\ ppc = "lastRedirects"
    /\ \E opened \in BOOLEAN :
        /\ closeAfterWait' = IF opened THEN closeAfterWait \cup {pN} ELSE closeAfterWait
        /\ \/ \E e \in CallErrs("redirect failed") :
                GotoPipeError(pN, e, "setRedirects") /\ UNCHANGED pi
           \/ /\ ppc' = "start" /\ pi' = 1
              /\ UNCHANGED <<errIndex, perr, phase>>
    /\ UNCHANGED <<pN, minus, cods, errs, igns, started, exitc, waited,
                   closedAt, status, ret>>

\* One round of the Start loop.
StartStage ==
    /\ PipeOnly
    /\ ppc = "start"
    /\ \/ \E e \in CallErrs("start failed") :
            /\ GotoPipeError(pi, e, "Start")
            /\ UNCHANGED <<pi, cods, errs, started, exitc>>
       \/ \E x \in {0, NoCode} \cup ExitCodes :
            /\ started' = started \cup {pi}
            /\ exitc' = [exitc EXCEPT ![pi] = x]
            /\ errs' = [errs EXCEPT ![pi] = "success"]
            /\ cods' = [cods EXCEPT ![pi] = "0"]
            /\ pi' = IF pi < pN THEN pi + 1 ELSE 1
            /\ ppc' = IF pi < pN THEN "start" ELSE "wait"
            /\ UNCHANGED <<errIndex, perr, phase>>
    /\ UNCHANGED <<pN, minus, igns, waited, closeAfterWait, closedAt, status, ret>>

\* One round of the Wait loop; after the last one status is "0".
WaitStage ==
    /\ PipeOnly
    /\ ppc = "wait"
    /\ waited' = Append(waited, pi)
    /\ IF exitc[pi] # 0
       THEN /\ GotoPipeError(pi, WaitErr(exitc[pi]), "Wait")
            /\ UNCHANGED <<pi, cods, errs, status, ret>>
       ELSE /\ errs' = [errs EXCEPT ![pi] = "success"]
            /\ cods' = [cods EXCEPT ![pi] = "0"]
            /\ IF pi < pN
               THEN pi' = pi + 1 /\ ppc' = "wait" /\ UNCHANGED <<status, ret>>
               ELSE /\ status' = "0" /\ ret' = RetNil
                    /\ ppc' = "return" /\ UNCHANGED pi
            /\ UNCHANGED <<errIndex, perr, phase>>
    /\ UNCHANGED <<pN, minus, igns, started, exitc, closeAfterWait, closedAt>>

\* The pipeError label: the message and code of the failing stage, the
\* composite error, status, and the result.
PipeError ==
    /\ PipeOnly
    /\ ppc = "pipeError"
    /\ errs' = PipeErrorErrs(errs, igns, errIndex, perr)
    /\ cods' = PipeErrorCods(cods, igns, errIndex, perr)
    /\ status' = PipeStatus(cods')
    /\ ret' = IF igns[errIndex] THEN RetNil ELSE RetErr(JoinStr(errs', "|"))
    /\ ppc' = "return"
    /\ UNCHANGED <<pN, minus, pi, igns, errIndex, perr, phase, started, exitc,
                   waited, closeAfterWait, closedAt>>

\* The deferred function: every registered stream is closed, then the caller
\* goes on.
PipeReturn ==
    /\ PipeOnly
    /\ ppc = "return"
    /\ closedAt' = Len(waited)
    /\ ppc' = "done"
    /\ UNCHANGED <<pN, minus, pi, cods, errs, igns, errIndex, perr, phase,
                   started, exitc, waited, closeAfterWait, status, ret>>

NextPipe ==
    \/ PipeEntry
    \/ BuildStage
    \/ WireStage
    \/ LastRedirects
    \/ StartStage
    \/ WaitStage
    \/ PipeError
    \/ PipeReturn

SpecPipe == InitPipe /\ [][NextPipe]_vars_all

(***************************************************************************)
(* Claims about executePipe, checked under SpecPipe.                       *)
(***************************************************************************)
PipeDone == ppc = "done" /\ pN >= 2

Range(s) == {s[i] : i \in 1..Len(s)}

\* Stage i failed: a call made for it returned the error, or its runner was
\* started and did not end with 0.
Failed(i) ==
    \/ phase # "none" /\ errIndex = i
    \/ i \in started /\ exitc[i] # 0

\* The stage failed with an exit code, and which.
HasExitCode(i) ==
    \/ i \in started /\ exitc[i] \in ExitCodes
    \/ i \notin started /\ phase # "none" /\ errIndex = i /\ perr.code # NoCode

ExitCodeOf(i) == IF i \in started THEN exitc[i] ELSE perr.code

CodeStrs == {Itoa(ESuccess), "1", "2", Itoa(ENotFound), Itoa(ENotStarted)}

AllSame(c) == \A j \in DOMAIN c, k \in DOMAIN c : c[j] = c[k]

\* status as the claims describe it: the one code, or the codes joined by '|'
Collapse(c) == IF AllSame(c) THEN c[1] ELSE JoinStr(c, "|")

\* code is one of the per-stage codes that status is made of
StatusHas(code) ==
    \E c \in [Stages -> CodeStrs] :
        /\ status = Collapse(c)
        /\ \E k \in Stages : c[k] = code

NoneIgnoring == \A i \in Stages : ~minus[i]

\* C4: in a pipeline with no ignoring stage, if every stage exits 0 there is
\* no error and status is "0"; and for each stage that fails, whatever the
\* stages before it did, the returned error is non-empty and status contains
\* that stage's exit code.
C4_Claim ==
    (PipeDone /\ NoneIgnoring) =>
        /\ (started = Stages /\ \A i \in Stages : exitc[i] = 0) =>
               (ret = RetNil /\ status = "0")
        /\ \A i \in Stages : Failed(i) =>
               /\ ret.state = "error" /\ ret.msg # ""
               /\ HasExitCode(i) => StatusHas(Itoa(ExitCodeOf(i)))

\* C5: an error is returned whenever a stage that is not ignoring errored,
\* also when an ignoring stage errored too; success is returned for a pipeline
\* with a failing stage only when every failing stage is ignoring; and in the
\* composite error the messages are joined by '|' in stage order, an ignoring
\* stage that failed being reported as "none".
C5_Claim ==
    PipeDone =>
        /\ (\E i \in Stages : Failed(i) /\ ~minus[i]) => ret.state = "error"
        /\ ret.state = "error" =>
               /\ ret.msg = JoinStr(errs, "|")
               /\ \A i \in Stages : (Failed(i) /\ minus[i]) => errs[i] = "none"

\* `-false | true`: the first stage ignoring and exiting non-zero, the second
\* exiting 0, both started.
IgnoredFalseTrue ==
    /\ ppc = "done" /\ pN = 2
    /\ minus[1] /\ ~minus[2]
    /\ started = {1, 2}
    /\ exitc[1] \in ExitCodes /\ exitc[2] = 0

\* C6 as stated: for `-false | true` there is no error and status is "0" (or
\* "0|0"); the code of the ignored stage does not appear in status.
C6_Claim ==
    IgnoredFalseTrue => (ret = RetNil /\ status \in {"0", "0|0"})

\* C6 as amended: for `-false | true` there is no error and status is the
\* exit code of the ignored stage, then '|', then "0" ("1|0" for false).
C6_IgnoredCodeKept ==
    IgnoredFalseTrue =>
        (ret = RetNil /\ status = Itoa(exitc[1]) \o "|" \o "0")

C6_Witness == IgnoredFalseTrue /\ exitc[1] = 1 /\ status = "1|0"

Increasing(s) == \A j \in 1..Len(s), k \in 1..Len(s) : j < k => s[j] < s[k]

\* C7: when executePipe returns, every stage that was started has been
\* waited on, in stage order, and the registered streams were closed only
\* after the last of the Waits.
C7_Claim ==
    ppc = "done" =>
        /\ started \subseteq Range(waited)
        /\ Increasing(waited)
        /\ closedAt = Len(waited)

\* The code each stage contributes, from what happened to it: the failing
\* stage the code its error carries, else 127 when the command could not be
\* resolved, 255 when it was not started, 0 when it was; a stage started is
\* 0, a stage never started is 255.
StageCode(j) ==
    IF phase # "none" /\ j = errIndex
    THEN IF perr.code # NoCode THEN Itoa(perr.code)
         ELSE IF phase = "getCommand" THEN Itoa(ENotFound)
         ELSE IF j \in started THEN Itoa(ESuccess)
         ELSE Itoa(ENotStarted)
    ELSE IF j \in started THEN Itoa(ESuccess) ELSE Itoa(ENotStarted)

LoopShells == {Root, FnShell}
Kinds == {"list", "inf"}     \* "for x in list" and "for" without a range
Depth == Len(stack)
Top == stack[Depth]
SetTop(f) == [stack EXCEPT ![Depth] = f]

\* An activation of executeFor in shell s. left: the elements of the list not
\* yet iterated; err: what the body, then the loop, returned. The last four
\* fields record what happened, the code reads none of them: top, the flag as
\* the current iteration began; saw, the listener set the flag while the body
\* of the current iteration was executing; cont, an iteration began after a
\* body during which the flag was set; retIntr, the flag as the loop returned.
NewFrame(s, k, n) ==
    [sh |-> s, kind |-> k, left |-> n, pc |-> "lock", err |-> "nil",
     top |-> FALSE, saw |-> FALSE, cont |-> FALSE, retIntr |-> FALSE]

\* os/signal delivers without blocking: a signal that finds the channel's
\* buffer full is dropped.
SendSIGINT ==
    /\ LoopOnly
    /\ sigs' = IF sigs < 1 THEN sigs + 1 ELSE sigs
    /\ UNCHANGED <<interrupted, looping, mutex, lpc, stack, eres>>

\* sig := <-sigs
ListenerRecv ==
    /\ LoopOnly
    /\ lpc = "recv" /\ sigs > 0
    /\ sigs' = sigs - 1
    /\ lpc' = "lock"
    /\ UNCHANGED <<interrupted, looping, mutex, stack, eres>>

\* case syscall.SIGINT: sh.Lock()
ListenerLock ==
    /\ LoopOnly
    /\ lpc = "lock" /\ mutex = "free"
    /\ mutex' = "listener"
    /\ lpc' = "crit"
    /\ UNCHANGED <<interrupted, looping, sigs, stack, eres>>

\* if sh.looping { sh.setIntr(true) }; sh.Unlock(): sh is the root shell
ListenerSetIntr ==
    /\ LoopOnly
    /\ lpc = "crit"
    /\ interrupted' = IF looping[Root] THEN TRUE ELSE interrupted
    /\ stack' = [i \in 1..Depth |->
                    IF looping[Root] /\ stack[i].pc = "body"
                    THEN [stack[i] EXCEPT !.saw = TRUE] ELSE stack[i]]
    /\ mutex' = "free"
    /\ lpc' = "recv"
    /\ UNCHANGED <<looping, sigs, eres>>

\* A for statement of the top level, or of a function the top level calls.
StartFor(s, k, n) ==
    /\ LoopOnly
    /\ stack = <<>>
    /\ k = "inf" => n = 0
    /\ stack' = <<NewFrame(s, k, n)>>
    /\ eres' = "none"
    /\ UNCHANGED <<interrupted, looping, mutex, sigs, lpc>>

\* executeFor: sh.Lock()
ForLock ==
    /\ LoopOnly
    /\ Depth > 0 /\ Top.pc = "lock" /\ mutex = "free"
    /\ mutex' = "eval"
    /\ stack' = SetTop([Top EXCEPT !.pc = "setloop"])
    /\ UNCHANGED <<interrupted, looping, sigs, lpc, eres>>

\* sh.looping = true; sh.Unlock()
ForSetLooping ==
    /\ LoopOnly
    /\ Depth > 0 /\ Top.pc = "setloop"
    /\ looping' = [looping EXCEPT ![Top.sh] = TRUE]
    /\ mutex' = "free"
    /\ stack' = SetTop([Top EXCEPT !.pc = "range"])
    /\ UNCHANGED <<interrupted, sigs, lpc, eres>>

\* The range of the loop: none for the infinite loop, else evalVariable and
\* the test of the type, which return an error before any iteration.
ForRange(ok) ==
    /\ LoopOnly
    /\ Depth > 0 /\ Top.pc = "range"
    /\ Top.kind = "inf" => ok
    /\ stack' = SetTop(IF ok THEN [Top EXCEPT !.pc = "iter"]
                       ELSE [Top EXCEPT !.pc = "ret", !.err = "error"])
    /\ UNCHANGED <<interrupted, looping, mutex, sigs, lpc, eres>>

\* A head of iteration that tests the flag before the body, as no loop of the
\* code does.
ForIterChecked ==
    /\ LoopOnly
    /\ Depth > 0 /\ Top.pc = "iter"
    /\ stack' = SetTop(IF Top.kind = "list" /\ Top.left = 0
                       THEN [Top EXCEPT !.pc = "ret", !.err = "nil"]
                       ELSE IF interrupted
                       THEN [Top EXCEPT !.pc = "ret", !.err = "interrupted"]
                       ELSE [Top EXCEPT !.pc = "body",
                                        !.top = interrupted,
                                        !.cont = @ \/ Top.saw,
                                        !.saw = FALSE])
    /\ interrupted' = IF Top.kind = "list" /\ Top.left = 0
                      THEN interrupted ELSE FALSE
    /\ UNCHANGED <<looping, mutex, sigs, lpc, eres>>

\* The head of an iteration: "for _, val := range obj.List()" with
\* sh.Setvar(id, val), or "for {". The body is entered with no test of the
\* flag.
ForIter ==
    /\ LoopOnly
    /\ Depth > 0 /\ Top.pc = "iter"
    /\ stack' = SetTop(IF Top.kind = "list" /\ Top.left = 0
                       THEN [Top EXCEPT !.pc = "ret", !.err = "nil"]
                       ELSE [Top EXCEPT !.pc = "body",
                                        !.top = interrupted,
                                        !.cont = @ \/ Top.saw,
                                        !.saw = FALSE])
    /\ UNCHANGED <<interrupted, looping, mutex, sigs, lpc, eres>>

\* executeTree(tr, true) returns: nil (a return inside the body is consumed
\* by the walk) or the error of a node.
BodyEnd(r) ==
    /\ LoopOnly
    /\ Depth > 0 /\ Top.pc = "body"
    /\ stack' = SetTop([Top EXCEPT !.pc = "after", !.err = r])
    /\ UNCHANGED <<interrupted, looping, mutex, sigs, lpc, eres>>

\* A node of the body is a for statement (same shell), or the invocation of
\* a function whose body has one (the function's subshell).
BodyFor(s, k, n) ==
    /\ LoopOnly
    /\ Depth > 0 /\ Depth < MaxDepth /\ Top.pc = "body"
    /\ s = Top.sh \/ (Top.sh = Root /\ s = FnShell)
    /\ k = "inf" => n = 0
    /\ stack' = Append(stack, NewFrame(s, k, n))
    /\ UNCHANGED <<interrupted, looping, mutex, sigs, lpc, eres>>

\* After the body: an Interrupted error is returned at once; otherwise
\* sh.Lock() for the test of the flag.
ForAfterBody ==
    /\ LoopOnly
    /\ Depth > 0 /\ Top.pc = "after"
    /\ IF Top.err = "interrupted"
       THEN /\ stack' = SetTop([Top EXCEPT !.pc = "ret"])
            /\ UNCHANGED mutex
       ELSE /\ mutex = "free"
            /\ mutex' = "eval"
            /\ stack' = SetTop([Top EXCEPT !.pc = "check"])
    /\ UNCHANGED <<interrupted, looping, sigs, lpc, eres>>

\* A faulty test that returns the Interrupted error with the mutex held.
ForCheckIntrNoUnlock ==
    /\ LoopOnly
    /\ Depth > 0 /\ Top.pc = "check"
    /\ LET e == IF interrupted THEN "interrupted" ELSE Top.err
       IN  stack' = SetTop(IF e # "nil"
                           THEN [Top EXCEPT !.pc = "ret", !.err = e]
                           ELSE [Top EXCEPT !.pc = "iter",
                                            !.left = IF Top.kind = "list"
                                                     THEN @ - 1 ELSE @])
    /\ interrupted' = FALSE
    /\ mutex' = IF interrupted THEN mutex ELSE "free"
    /\ UNCHANGED <<looping, sigs, lpc, eres>>

\* if sh.getIntr() { sh.setIntr(false); ... newErrInterrupted }; sh.Unlock();
\* if err != nil the loop ends, else the next iteration.
ForCheckIntr ==
    /\ LoopOnly
    /\ Depth > 0 /\ Top.pc = "check"
    /\ LET e == IF interrupted THEN "interrupted" ELSE Top.err
       IN  stack' = SetTop(IF e # "nil"
                           THEN [Top EXCEPT !.pc = "ret", !.err = e]
                           ELSE [Top EXCEPT !.pc = "iter",
                                            !.left = IF Top.kind = "list"
                                                     THEN @ - 1 ELSE @])
    /\ interrupted' = FALSE
    /\ mutex' = "free"
    /\ UNCHANGED <<looping, sigs, lpc, eres>>

\* the deferred function: sh.Lock()
ForDeferLock ==
    /\ LoopOnly
    /\ Depth > 0 /\ Top.pc = "ret" /\ mutex = "free"
    /\ mutex' = "eval"
    /\ stack' = SetTop([Top EXCEPT !.pc = "reset"])
    /\ UNCHANGED <<interrupted, looping, sigs, lpc, eres>>

\* sh.looping = false; sh.Unlock(): executeFor has returned
ForResetLooping ==
    /\ LoopOnly
    /\ Depth > 0 /\ Top.pc = "reset"
    /\ looping' = [looping EXCEPT ![Top.sh] = FALSE]
    /\ mutex' = "free"
    /\ stack' = SetTop([Top EXCEPT !.pc = "returned", !.retIntr = interrupted])
    /\ UNCHANGED <<interrupted, sigs, lpc, eres>>

\* The caller gets what executeFor returned: the walk of the enclosing body
\* goes on after nil and ends with the error otherwise (executeTree, and
\* executeFnInv for a function's loop, return the error as it is).
ForReturn ==
    /\ LoopOnly
    /\ Depth > 0 /\ Top.pc = "returned"
    /\ IF Depth = 1
       THEN /\ stack' = <<>>
            /\ eres' = Top.err
       ELSE /\ stack' = [i \in 1..(Depth - 1) |->
                           IF i = Depth - 1 /\ Top.err # "nil"
                           THEN [stack[i] EXCEPT !.pc = "after", !.err = Top.err]
                           ELSE stack[i]]
            /\ UNCHANGED eres
    /\ UNCHANGED <<interrupted, looping, mutex, sigs, lpc>>

InitLoop == ScopeIdle /\ PipeIdle /\ LoopIdle /\ WalkIdle /\ CmdIdle /\ ImpIdle /\ AsgIdle /\ RetIdle /\ EnvIdle /\ BindIdle /\ CndIdle /\ ParseIdle

NextLoop ==
    \/ SendSIGINT
    \/ ListenerRecv
    \/ ListenerLock
    \/ ListenerSetIntr
    \/ \E s \in LoopShells, k \in Kinds, n \in 0..MaxIter : StartFor(s, k, n)
    \/ ForLock
    \/ ForSetLooping
    \/ \E ok \in BOOLEAN : ForRange(ok)
    \/ ForIter
    \/ \E r \in {"nil", "error"} : BodyEnd(r)
    \/ \E s \in LoopShells, k \in Kinds, n \in 0..MaxIter : BodyFor(s, k, n)
    \/ ForAfterBody
    \/ ForCheckIntr
    \/ ForDeferLock
    \/ ForResetLooping
    \/ ForReturn

SpecLoop == InitLoop /\ [][NextLoop]_vars_all

\* ---------------------------------------------------------------------------
\* Properties of the loops
\* ---------------------------------------------------------------------------

Frames == {stack[i] : i \in 1..Depth}

\* a step of the evaluator inside executeFor
EvalStep == Depth > 0 /\ stack' # stack /\ lpc' = lpc

\* the head of an iteration that has a body to run
AboutToBegin(f) == f.pc = "iter" /\ ~(f.kind = "list" /\ f.left = 0)

\* C9: when the flag is set while the body of a for loop is executing, the
\* loop starts no other iteration, it returns an Interrupted error (also when
\* the body returned an ordinary error) and the flag is false as it returns.
C9_Claim ==
    \A f \in Frames :
        /\ ~f.cont
        /\ (f.pc = "returned" /\ f.saw) =>
               (f.err = "interrupted" /\ ~f.retIntr)

\* What holds of the above: no other iteration, and an Interrupted error.
C9_Terminates ==
    \A f \in Frames :
        /\ ~f.cont
        /\ (f.pc \in {"ret", "reset", "returned"} /\ f.saw) => f.err = "interrupted"

Iterating(f) == f.pc \in {"iter", "body", "after"}

\* C11: whenever a for loop is executing, in the root shell or in the
\* subshell of a function, a SIGINT the listener handles sets the root's
\* interrupted flag.
C11_Claim ==
    [][(lpc = "crit" /\ lpc' = "recv" /\ \E f \in Frames : Iterating(f)) =>
           interrupted']_vars_all

\* between "sh.looping = true" and the deferred "sh.looping = false"
InsideFor(f) == f.pc \in {"range", "iter", "body", "after", "check", "ret"}

\* C12: the looping flag of a shell is true at every moment one of its for
\* statements is between its entry and its exit, also while an outer loop
\* goes on after a loop nested in its body has finished, and it is false
\* once the outermost for statement of the shell has returned.
C12_Claim ==
    \A s \in LoopShells :
        /\ (\E f \in Frames : f.sh = s /\ InsideFor(f)) => looping[s]
        /\ (\A f \in Frames : f.sh = s => f.pc = "returned") => ~looping[s]

\* C27: the interrupted flag is true only while a for loop is executing: it
\* is never left set once the for statement has returned, so that a SIGINT
\* of one loop never interrupts a loop that starts later.
C27_Claim ==
    /\ interrupted => \E f \in Frames : f.pc # "returned"
    /\ (Depth = 1 /\ Top.pc \in {"lock", "setloop"}) => ~interrupted

\* the evaluator is between a Lock and its Unlock
EvalHolds == Depth > 0 /\ Top.pc \in {"setloop", "check", "reset"}

\* the evaluator is at a Lock
EvalAtLock ==
    /\ Depth > 0
    /\ Top.pc \in {"lock", "ret"} \/ (Top.pc = "after" /\ Top.err # "interrupted")

\* C30: the evaluator and the listener never deadlock on the mutex the root
\* and the subshells share. The mutex is held exactly between a Lock and its
\* Unlock, by the one that locked it, and the holder can always take the
\* step that unlocks; the evaluator is never at a Lock while it holds the
\* mutex, also in nested loops and in loops of a function's subshell; the
\* interrupted flag and looping change only under the mutex, and the flag is
\* read by the loop only under the mutex.
C30_MutexDiscipline ==
    /\ [](/\ mutex = "eval" <=> EvalHolds
          /\ mutex = "listener" <=> lpc = "crit"
          /\ EvalHolds => ENABLED (ForSetLooping \/ ForCheckIntr \/ ForResetLooping)
          /\ lpc = "crit" => ENABLED ListenerSetIntr
          /\ (EvalAtLock /\ mutex = "free") =>
                 ENABLED (ForLock \/ ForAfterBody \/ ForDeferLock)
          /\ (lpc = "lock" /\ mutex = "free") => ENABLED ListenerLock
          /\ \A i \in 1..(Depth - 1) : stack[i].pc = "body")
    /\ [][/\ interrupted' # interrupted => mutex # "free"
          /\ looping' # looping => mutex = "eval"
          /\ (mutex # "free" /\ mutex' # mutex) => mutex' = "free"
          /\ (mutex = "eval" /\ mutex' = "free") => lpc' = lpc
          /\ (mutex = "listener" /\ mutex' = "free") => stack' # stack \/ lpc' # lpc
          /\ (EvalStep /\ Top.pc = "check") => mutex = "eval"]_vars_all

\* The listener waits at its Lock while the deferred function of a loop
\* nested in a loop of the root, running in a function's subshell, holds the
\* mutex after an Interrupted error.
C30_Witness ==
    /\ Depth = 2 /\ stack[1].sh = Root /\ Top.sh = FnShell
    /\ Top.pc = "reset" /\ Top.err = "interrupted"
    /\ mutex = "eval" /\ lpc = "lock"

\* ---------------------------------------------------------------------------
\* The tree walk (executeTree, executeNode, executeReturn, executeIf) with
\* executeCommand as one of the nodes
\* ---------------------------------------------------------------------------

WDepth == Len(wstack)
WTop == wstack[WDepth]
NewWalk(st, n) == [stopable |-> st, left |-> n]
RetObjs == Objs \cup {NilObj}

\* the innermost walk is about to call executeNode on its next node
AtNode == WDepth > 0 /\ ~pend.set /\ WTop.left > 0

\* the nodes that follow the next node in the blocks being walked
RestNodes == LET RECURSIVE Sum(_)
                 Sum(i) == IF i = 0 THEN 0 ELSE (wstack[i].left - 1) + Sum(i - 1)
             IN  Sum(WDepth)

\* executeNode has returned r to the innermost walk
NodeDone(r) ==
    /\ pend' = r
    /\ afterRet' = (afterRet \/ retv.set)
    /\ UNCHANGED <<wstack, wfn, wres>>

\* The top level runs a tree (Shell.ExecuteTree), or a function its body:
\* both walks are stopable.
WalkStart(fn, n) ==
    /\ WalkOnly
    /\ wstack = <<>>
    /\ wstack' = <<NewWalk(TRUE, n)>>
    /\ wfn' = fn
    /\ pend' = NoRes /\ wres' = NoRes /\ wstatus' = ""
    /\ retv' = NoReturn /\ afterRet' = FALSE
    /\ wlast' = Node("none", FALSE, NoErr)

\* the calls of executeCommand that may return an error
CmdCalls == {"getCommand", "SetArgs", "setRedirects", "Start", "Wait"}
CmdErrs == UNION {CallErrs(c) : c \in CmdCalls}

\* A faulty executeCommand that returns the error of a command written with
\* a leading '-' as it is.
executeCommandNoIgnore(m, e) ==
    IF e = NoErr THEN [status |-> Itoa(ESuccess), err |-> "nil"]
    ELSE [status |-> getErrStatus(e, Itoa(ENotFound)), err |-> "error"]

\* executeCommand: status and the error returned, from the first error e of
\* getCommand, SetArgs, setRedirects, Start, Wait (NoErr when none fails);
\* m: getCommand found the name written with a leading '-'.
executeCommand(m, e) ==
    IF e = NoErr THEN [status |-> Itoa(ESuccess), err |-> "nil"]
    ELSE [status |-> getErrStatus(e, Itoa(ENotFound)),
          err |-> IF m THEN "ignore" ELSE "error"]

\* case ast.NodeCommand
ExecCommand(m, e) ==
    /\ WalkOnly
    /\ AtNode
    /\ wstatus' = executeCommand(m, e).status
    /\ NodeDone(Res(NilObj, executeCommand(m, e).err))
    /\ wlast' = Node("command", m, e)
    /\ UNCHANGED retv

\* The other nodes that return no object: nil, an error, or (a for
\* statement) an Interrupted error.
ExecNode(e) ==
    /\ WalkOnly
    /\ AtNode
    /\ NodeDone(Res(NilObj, e))
    /\ wlast' = Node("other", FALSE, NoErr)
    /\ UNCHANGED <<wstatus, retv>>

\* case ast.NodeReturn: an error outside of a function; executeReturn gives
\* the value (nil for a bare return) with the StopWalking carrier, or the
\* error of evalExpr.
ExecReturn(v, ok) ==
    /\ WalkOnly
    /\ AtNode
    /\ IF wfn /\ ok
       THEN /\ NodeDone(Res(v, "stop"))
            /\ retv' = [set |-> TRUE, obj |-> v, depth |-> WDepth,
                        rest |-> RestNodes]
       ELSE /\ NodeDone(Res(NilObj, "error"))
            /\ UNCHANGED retv
    /\ wlast' = Node("return", FALSE, NoErr)
    /\ UNCHANGED wstatus

\* case ast.NodeIf: evalIfArguments or the operator fails ("error"), no block
\* is chosen ("none"), or the if block or the else block is walked with
\* stopable = false.
ExecIf(c, n) ==
    /\ WalkOnly
    /\ AtNode
    /\ IF c = "block"
       THEN /\ WDepth < MaxNest
            /\ wstack' = Append(wstack, NewWalk(FALSE, n))
            /\ afterRet' = (afterRet \/ retv.set)
            /\ UNCHANGED <<wfn, pend, wres>>
       ELSE /\ n = 0
            /\ NodeDone(Res(NilObj, IF c = "none" THEN "nil" ELSE "error"))
    /\ wlast' = Node("if", FALSE, NoErr)
    /\ UNCHANGED <<wstatus, retv>>

\* A faulty walk in which a block that is not stopable consumes the carrier.
executeTreeConsuming(stopable, r) ==
    IF r.err \in {"nil", "ignore"} THEN [continue |-> TRUE, res |-> NoRes]
    ELSE IF r.err = "interrupted"
    THEN [continue |-> FALSE, res |-> Res(NilObj, r.err)]
    ELSE IF r.err = "stop"
    THEN [continue |-> FALSE, res |-> Res(r.obj, "nil")]
    ELSE [continue |-> FALSE, res |-> r]

\* executeTree on what executeNode returned: go on with the next node (no
\* error, or the Ignore carrier), or return.
executeTree(stopable, r) ==
    IF r.err \in {"nil", "ignore"} THEN [continue |-> TRUE, res |-> NoRes]
    ELSE IF r.err = "interrupted"
    THEN [continue |-> FALSE, res |-> Res(NilObj, r.err)]
    ELSE IF stopable /\ r.err = "stop"
    THEN [continue |-> FALSE, res |-> Res(r.obj, "nil")]
    ELSE [continue |-> FALSE, res |-> r]

\* executeTree returns r: to the walk that executes the if statement, which
\* gets it as the result of its node, or to the caller of the outermost walk.
TreeResult(r) ==
    IF WDepth = 1
    THEN /\ wstack' = <<>>
         /\ wres' = r
         /\ pend' = NoRes
         /\ UNCHANGED wlast
    ELSE /\ wstack' = SubSeq(wstack, 1, WDepth - 1)
         /\ pend' = r
         /\ wlast' = Node("if", FALSE, NoErr)
         /\ UNCHANGED wres

\* the body of the loop over root.Nodes, after executeNode
TreeStep ==
    /\ WalkOnly
    /\ WDepth > 0 /\ pend.set
    /\ LET d == executeTree(WTop.stopable, pend)
       IN  IF d.continue
           THEN /\ wstack' = [wstack EXCEPT ![WDepth].left = @ - 1]
                /\ pend' = NoRes
                /\ UNCHANGED <<wres, wlast>>
           ELSE TreeResult(d.res)
    /\ UNCHANGED <<wfn, wstatus, retv, afterRet>>

\* no node is left: return nil, nil
TreeEnd ==
    /\ WalkOnly
    /\ WDepth > 0 /\ ~pend.set /\ WTop.left = 0
    /\ TreeResult(Res(NilObj, "nil"))
    /\ UNCHANGED <<wfn, wstatus, retv, afterRet>>

InitWalk == ScopeIdle /\ PipeIdle /\ LoopIdle /\ WalkIdle /\ CmdIdle /\ ImpIdle /\ AsgIdle /\ RetIdle /\ EnvIdle /\ BindIdle /\ CndIdle /\ ParseIdle

NextWalk ==
    \/ \E fn \in BOOLEAN, n \in 0..MaxNodes : WalkStart(fn, n)
    \/ \E m \in BOOLEAN, e \in CmdErrs \cup {NoErr} : ExecCommand(m, e)
    \/ \E e \in {"nil", "error", "interrupted"} : ExecNode(e)
    \/ \E v \in RetObjs, ok \in BOOLEAN : ExecReturn(v, ok)
    \/ \E c \in {"error", "none", "block"}, n \in 0..MaxNodes : ExecIf(c, n)
    \/ TreeStep
    \/ TreeEnd

SpecWalk == InitWalk /\ [][NextWalk]_vars_all

\* ---------------------------------------------------------------------------
\* Properties of the tree walk
\* ---------------------------------------------------------------------------

\* a step of executeTree on what its node returned
WalkerStep == WDepth > 0 /\ pend.set /\ wstack' # wstack

\* C13: a return executed in a function body, directly or inside nested
\* if/else blocks, ends the walk of the function body: no node is executed
\* after it, the walk returns the value the return carries and no error, and
\* the StopWalking carrier is never what the walk returns; the walk of an if
\* or else block hands the carrier and the value on as they are.
C13_ReturnEndsWalk ==
    /\ [](/\ ~afterRet
          /\ wres.set => wres.err # "stop"
          /\ (wres.set /\ retv.set) => wres = Res(retv.obj, "nil"))
    /\ [][(WalkerStep /\ pend.err = "stop" /\ ~WTop.stopable) =>
              (WDepth' = WDepth - 1 /\ pend' = pend)]_vars_all

\* A function body returned "u" from a return two if blocks deep that had
\* nodes after it.
C13_Witness ==
    /\ wstack = <<>> /\ wres = Res(NewStrObj("u"), "nil")
    /\ retv.set /\ retv.depth = 3 /\ retv.rest > 0

\* what the last command node was and what executeCommand made of it
FailedCommand == wlast.kind = "command" /\ wlast.e # NoErr

\* C14: executeCommand sets status on every path: "0" exactly when no call
\* failed, else the code the error carries or "127"; the error of a command
\* written with a leading '-' comes back as the Ignore carrier and the walk
\* goes on with the node that follows; any other error of a command ends
\* the walk of that list.
C14_StatusAndIgnore ==
    /\ []((pend.set /\ wlast.kind = "command") =>
            /\ wstatus # ""
            /\ wstatus = "0" <=> wlast.e = NoErr
            /\ FailedCommand =>
                   /\ wstatus = IF wlast.e.code # NoCode
                                THEN Itoa(wlast.e.code) ELSE "127"
                   /\ pend.err = IF wlast.minus THEN "ignore" ELSE "error")
    /\ [][(WalkerStep /\ FailedCommand) =>
              IF wlast.minus
              THEN /\ wstack' = [wstack EXCEPT ![WDepth].left = @ - 1]
                   /\ ~pend'.set /\ ~wres'.set
              ELSE /\ WDepth' = WDepth - 1
                   /\ IF WDepth = 1 THEN wres'.err = "error"
                      ELSE pend'.err = "error"]_vars_all

\* After `-cmd` whose Wait failed with exit status 2, status is "2" and the
\* walk is at the node that follows.
C14_Witness ==
    /\ wlast = Node("command", TRUE, [msg |-> "Wait", code |-> 2])
    /\ wstatus = "2" /\ AtNode

\* ---------------------------------------------------------------------------
\* executeCommand step by step, with setRedirects / buildRedirect
\* ---------------------------------------------------------------------------

\* the file descriptors a redirection map may name, valid or not
FDs == -3..3

\* The location of a redirection: none, an expression that is no string, a
\* file name, a tcp:// or unix:// address, a tcp:// address without one ':'.
LocKinds == {"nil", "notstring", "file", "tcp", "unix", "badaddr"}

\* openRedirectLocation: the kind of stream opened, "error" when the location
\* is no string, the address is malformed, or OpenFile / Dial fails (~ok).
openRedirectLocation(loc, ok) ==
    IF loc \in {"notstring", "badaddr"} \/ ~ok THEN "error"
    ELSE IF loc = "file" THEN "file"
    ELSE "socket"

\* What buildRedirect returns: the runner's stdout and stderr after it, the
\* kind of stream it opened ("none" if none), whether it appended that stream
\* to closeAfterWait, and whether it returned an error.
Built(o, e, k, reg, fail) ==
    [out |-> o, err |-> e, open |-> k, reg |-> reg, fail |-> fail]

\* the switch of buildRedirect; id names the stream it opens, if it does
buildRedirectSwitch(o, e, l, r, loc, ok, id) ==
    LET Fail == Built(o, e, "none", FALSE, TRUE)
        Same == Built(o, e, "none", FALSE, FALSE)
        k == openRedirectLocation(loc, ok)
        ToLocation(fd) ==
            IF loc = "nil" \/ k = "error" THEN Fail
            ELSE IF fd = 1 THEN Built(Opened(id), e, k, TRUE, FALSE)
            ELSE Built(o, Opened(id), k, TRUE, FALSE)
        ToNull(fd) ==
            IF ~ok THEN Fail
            ELSE IF fd = 1 THEN Built(Opened(id), e, "devnull", FALSE, FALSE)
            ELSE Built(o, Opened(id), "devnull", FALSE, FALSE)
    IN  CASE l = 0 -> Fail
          [] l = 1 ->
               (CASE r = 0 -> Fail
                  [] r = 1 -> Same
                  [] r = 2 -> Built(e, e, "none", FALSE, FALSE)
                  [] r = RedirMapNoValue -> ToLocation(1)
                  [] r = RedirMapSupress -> ToNull(1)
                  [] OTHER -> Same)
          [] l = 2 ->
               (CASE r = 0 -> Fail
                  [] r = 1 -> Built(o, o, "none", FALSE, FALSE)
                  [] r = 2 -> Same
                  [] r = RedirMapNoValue -> ToLocation(2)
                  [] r = RedirMapSupress -> ToNull(2)
                  [] OTHER -> Same)
          [] l = RedirMapNoValue -> ToLocation(1)
          [] OTHER -> Same

\* A faulty buildRedirect without the two range checks.
buildRedirectUnchecked(o, e, l, r, loc, ok, id) ==
    buildRedirectSwitch(o, e, l, r, loc, ok, id)

\* buildRedirect: the range checks on both sides of the map, then the switch
buildRedirect(o, e, l, r, loc, ok, id) ==
    IF l > 2 \/ l < RedirMapSupress THEN Built(o, e, "none", FALSE, TRUE)
    ELSE IF r > 2 \/ r < RedirMapSupress THEN Built(o, e, "none", FALSE, TRUE)
    ELSE buildRedirectSwitch(o, e, l, r, loc, ok, id)

\* "goto cmdError" with err = e
GotoCmdError(e) ==
    /\ cerrv' = e
    /\ cpc' = "cmdError"

\* cmd, ignoreError, err = sh.getCommand(c)
CmdGetCommand(e) ==
    /\ CmdOnly
    /\ cpc = "getCommand"
    /\ IF e = NoErr THEN cpc' = "SetArgs" /\ UNCHANGED cerrv
       ELSE GotoCmdError(e)
    /\ UNCHANGED <<cminus, rleft, cout, cerr, streams, caw, crun, cret, clast,
                   cearly>>

\* SetEnviron, SetArgs, then SetStdin / SetStdout / SetStderr
CmdSetArgs(e) ==
    /\ CmdOnly
    /\ cpc = "SetArgs"
    /\ IF e = NoErr
       THEN /\ cpc' = "setRedirects"
            /\ cout' = ShStream(1) /\ cerr' = ShStream(2)
            /\ UNCHANGED cerrv
       ELSE /\ GotoCmdError(e)
            /\ UNCHANGED <<cout, cerr>>
    /\ UNCHANGED <<cminus, rleft, streams, caw, crun, cret, clast, cearly>>

\* setRedirects: one turn of its loop, buildRedirect on the next redirection
\* [l=r] loc; the files it returns are appended, then its error ends the loop.
CmdBuildRedirect(l, r, loc, ok) ==
    /\ CmdOnly
    /\ cpc = "setRedirects" /\ rleft > 0
    /\ LET id == Len(streams) + 1
           b == buildRedirect(cout, cerr, l, r, loc, ok, id)
       IN  /\ cout' = b.out /\ cerr' = b.err
           /\ streams' = IF b.open = "none" THEN streams
                         ELSE Append(streams, [kind |-> b.open, open |-> TRUE])
           /\ caw' = IF b.reg THEN Append(caw, id) ELSE caw
           /\ IF b.fail
              THEN GotoCmdError([msg |-> "setRedirects", code |-> NoCode])
              ELSE UNCHANGED <<cpc, cerrv>>
    /\ rleft' = rleft - 1
    /\ clast' = [l |-> l, r |-> r]
    /\ UNCHANGED <<cminus, crun, cret, cearly>>

\* setRedirects returns with no error
CmdRedirectsDone ==
    /\ CmdOnly
    /\ cpc = "setRedirects" /\ rleft = 0
    /\ cpc' = "Start"
    /\ UNCHANGED <<cminus, rleft, cout, cerr, streams, caw, cerrv, crun, cret,
                   clast, cearly>>

\* err = cmd.Start()
CmdStart(e) ==
    /\ CmdOnly
    /\ cpc = "Start"
    /\ IF e = NoErr THEN cpc' = "Wait" /\ crun' = "running" /\ UNCHANGED cerrv
       ELSE GotoCmdError(e) /\ UNCHANGED crun
    /\ UNCHANGED <<cminus, rleft, cout, cerr, streams, caw, cret, clast, cearly>>

\* err = cmd.Wait(); with no error: Setvar("status", "0"); return nil
CmdWait(e) ==
    /\ CmdOnly
    /\ cpc = "Wait"
    /\ crun' = "finished"
    /\ IF e = NoErr
       THEN /\ cret' = executeCommand(cminus, NoErr)
            /\ cpc' = "deferred"
            /\ UNCHANGED cerrv
       ELSE /\ GotoCmdError(e)
            /\ UNCHANGED cret
    /\ UNCHANGED <<cminus, rleft, cout, cerr, streams, caw, clast, cearly>>

\* cmdError: Setvar("status", getErrStatus(err, status)); the error, wrapped
\* in newErrIgnore if ignoreError
CmdError ==
    /\ CmdOnly
    /\ cpc = "cmdError"
    /\ cret' = executeCommand(cminus, cerrv)
    /\ cpc' = "deferred"
    /\ UNCHANGED <<cminus, rleft, cout, cerr, streams, caw, cerrv, crun, clast,
                   cearly>>

\* the deferred function: c.Close() for every c of closeAfterWait
CmdDeferredClose ==
    /\ CmdOnly
    /\ cpc = "deferred"
    /\ streams' = [i \in 1..Len(streams) |->
                      IF \E j \in 1..Len(caw) : caw[j] = i
                      THEN [streams[i] EXCEPT !.open = FALSE] ELSE streams[i]]
    /\ cearly' = (cearly \/ (crun = "running" /\ caw # <<>>))
    /\ cpc' = "done"
    /\ UNCHANGED <<cminus, rleft, cout, cerr, caw, cerrv, crun, cret, clast>>

InitCmd ==
    /\ ScopeIdle /\ PipeIdle /\ LoopIdle /\ WalkIdle /\ ImpIdle /\ AsgIdle /\ RetIdle /\ EnvIdle /\ BindIdle /\ CndIdle /\ ParseIdle
    /\ cminus \in BOOLEAN /\ rleft \in 0..MaxRedirs /\ cpc = "getCommand"
    /\ cout = ShStream(1) /\ cerr = ShStream(2)
    /\ streams = <<>> /\ caw = <<>>
    /\ cerrv = NoErr /\ crun = "idle" /\ cret = NoResult
    /\ clast = NoRedirect /\ cearly = FALSE

NextCmd ==
    \/ \E e \in CallErrs("getCommand") \cup {NoErr} : CmdGetCommand(e)
    \/ \E e \in CallErrs("SetArgs") \cup {NoErr} : CmdSetArgs(e)
    \/ \E l \in FDs, r \in FDs, loc \in LocKinds, ok \in BOOLEAN :
           CmdBuildRedirect(l, r, loc, ok)
    \/ CmdRedirectsDone
    \/ \E e \in CallErrs("Start") \cup {NoErr} : CmdStart(e)
    \/ \E e \in {WaitErr(c) : c \in ExitCodes \cup {NoCode}} \cup {NoErr} :
           CmdWait(e)
    \/ CmdError
    \/ CmdDeferredClose

SpecCmd == InitCmd /\ [][NextCmd]_vars_all

\* ---------------------------------------------------------------------------
\* Properties of the redirections
\* ---------------------------------------------------------------------------

ValidFDs == RedirMapSupress..2

\* the maps the evaluator must reject
Rejected(l, r) == l \notin ValidFDs \/ r \notin ValidFDs \/ l = 0

\* the step of setRedirects that called buildRedirect
BuildStep == cpc = "setRedirects" /\ rleft' = rleft - 1

\* C15: buildRedirect rejects every redirection whose left fd or right fd is
\* outside {-2,-1,0,1,2} and every one whose left fd is 0, whatever the
\* location: the runner's stdout and stderr stay as they were, nothing is
\* opened or registered, and the redirections that remain are not applied.
C15_RejectsInvalidFds ==
    [][/\ (BuildStep /\ Rejected(clast'.l, clast'.r)) =>
              /\ cpc' = "cmdError"
              /\ cout' = cout /\ cerr' = cerr
              /\ streams' = streams /\ caw' = caw
       /\ cpc \in {"cmdError", "deferred"} =>
              /\ rleft' = rleft
              /\ cout' = cout /\ cerr' = cerr
              /\ Len(streams') = Len(streams)]_vars_all

\* `cmd >[3] f >[1] g`: the first redirection is rejected, the second is
\* left unapplied and nothing was opened.
C15_Witness ==
    /\ cpc = "done" /\ clast = [l |-> 3, r |-> RedirMapNoValue]
    /\ rleft = 1 /\ streams = <<>>
    /\ cout = ShStream(1) /\ cerr = ShStream(2)
    /\ cret.err # "nil"

Registered(i) == \E j \in 1..Len(caw) : caw[j] = i

\* C16: every stream opened for a redirection (file, socket, the /dev/null
\* sink of [L=]) is registered in the close list, is not closed while the
\* runner runs, and is closed when executeCommand has returned.
C16_Claim ==
    /\ \A i \in 1..Len(streams) : Registered(i)
    /\ ~cearly
    /\ cpc = "done" => \A i \in 1..Len(streams) : ~streams[i].open

\* What holds of the above: the files and sockets opened for a location are
\* registered and closed, and nothing is closed while the runner runs.
C16_LocationsClosed ==
    /\ \A i \in 1..Len(streams) :
           streams[i].kind # "devnull" =>
               (Registered(i) /\ (cpc = "done" => ~streams[i].open))
    /\ ~cearly

\* ---------------------------------------------------------------------------
\* executeImport
\* ---------------------------------------------------------------------------

\* the strings an import argument evaluates to in the model
ImportNames == {"u", "u.sh", ".sh", "/u"}
CurrentFiles == {"", "/d/m"}
NashPaths == {NilObj, NewStrObj("/n"), NewListObj(<<"/n">>)}

\* len(fname) > 3 && fname[len(fname)-3:] == ".sh"
hasExt(f) == Len(f) > 3 /\ SubSeq(f, Len(f) - 2, Len(f)) = ".sh"

\* path.Dir: the path up to its last '/', "." when it has none
RECURSIVE LastSlash(_, _)
LastSlash(s, i) ==
    IF i = 0 THEN 0
    ELSE IF SubSeq(s, i, i) = "/" THEN i
    ELSE LastSlash(s, i - 1)

Dir(s) ==
    LET i == LastSlash(s, Len(s))
    IN  IF i = 0 THEN "." ELSE IF i = 1 THEN "/" ELSE SubSeq(s, 1, i - 1)

\* A faulty list of tries that looks in $NASHPATH/lib before the directory
\* of the current file.
TriesLibFirst(f, cur, dotDir) ==
    <<f>>
    \o (IF hasExt(f) THEN <<>> ELSE <<f \o ".sh">>)
    \o <<dotDir \o "/lib/" \o f>>
    \o (IF hasExt(f) THEN <<>> ELSE <<dotDir \o "/lib/" \o f \o ".sh">>)
    \o (IF cur = "" THEN <<>>
        ELSE <<Dir(cur) \o "/" \o f>>
             \o (IF hasExt(f) THEN <<>> ELSE <<Dir(cur) \o "/" \o f \o ".sh">>))

\* tries, as executeImport appends to it for a name that does not begin
\* with '/', NASHPATH being the string dotDir
Tries(f, cur, dotDir) ==
    <<f>>
    \o (IF hasExt(f) THEN <<>> ELSE <<f \o ".sh">>)
    \o (IF cur = "" THEN <<>>
        ELSE <<Dir(cur) \o "/" \o f>>
             \o (IF hasExt(f) THEN <<>> ELSE <<Dir(cur) \o "/" \o f \o ".sh">>))
    \o <<dotDir \o "/lib/" \o f>>
    \o (IF hasExt(f) THEN <<>> ELSE <<dotDir \o "/lib/" \o f \o ".sh">>)

\* every path the model gives a state in the file system
KnownPaths(f, cur) ==
    LET Stems == {f, Dir(cur) \o "/" \o f, "/n/lib/" \o f}
    IN  Stems \cup {s \o ".sh" : s \in Stems}

\* the import returns r
ImportReturn(r) ==
    /\ iret' = r
    /\ ipc' = "done"

\* evalExpr of the argument and the test of its type
ImportEval(ok) ==
    /\ ImpOnly
    /\ ipc = "eval"
    /\ IF ok THEN ipc' = "name" /\ UNCHANGED iret
       ELSE ImportReturn("evalerror")
    /\ UNCHANGED <<ifname, icur, inash, ifs, itries, iidx, iexec>>

\* ExecFile(path): ReadFile fails on a missing path and on a directory;
\* otherwise the file is executed in the current shell.
ExecFile(path) ==
    IF ifs[path] = "file"
    THEN /\ iexec' = Append(iexec, path)
         /\ ImportReturn("executed")
    ELSE /\ ImportReturn("error")
         /\ UNCHANGED iexec

\* if len(fname) > 0 && fname[0] == '/' { return sh.ExecFile(fname) }
ImportAbsolute ==
    /\ ImpOnly
    /\ ipc = "name"
    /\ Len(ifname) > 0 /\ SubSeq(ifname, 1, 1) = "/"
    /\ ExecFile(ifname)
    /\ UNCHANGED <<ifname, icur, inash, ifs, itries, iidx>>

\* A faulty import that searches without NASHPATH when it is not set.
ImportTriesNoNashpath ==
    /\ ImpOnly
    /\ ipc = "name"
    /\ ~(Len(ifname) > 0 /\ SubSeq(ifname, 1, 1) = "/")
    /\ itries' = <<ifname>>
    /\ iidx' = 1
    /\ ipc' = "stat"
    /\ UNCHANGED <<ifname, icur, inash, ifs, iexec, iret>>

\* the tries are collected; NASHPATH must be set, and be a string
ImportTries ==
    /\ ImpOnly
    /\ ipc = "name"
    /\ ~(Len(ifname) > 0 /\ SubSeq(ifname, 1, 1) = "/")
    /\ IF inash = NilObj
       THEN ImportReturn("error") /\ UNCHANGED <<itries, iidx>>
       ELSE IF inash.type # "string"
       THEN ImportReturn("error") /\ UNCHANGED <<itries, iidx>>
       ELSE /\ itries' = Tries(ifname, icur, ObjString(inash))
            /\ iidx' = 1
            /\ ipc' = "stat"
            /\ UNCHANGED iret
    /\ UNCHANGED <<ifname, icur, inash, ifs, iexec>>

\* one turn of "for _, path := range tries": os.Stat, then ExecFile unless
\* the path is missing or a directory
ImportStat ==
    /\ ImpOnly
    /\ ipc = "stat" /\ iidx <= Len(itries)
    /\ IF ifs[itries[iidx]] = "file"
       THEN ExecFile(itries[iidx]) /\ UNCHANGED iidx
       ELSE /\ iidx' = iidx + 1
            /\ UNCHANGED <<ipc, iret, iexec>>
    /\ UNCHANGED <<ifname, icur, inash, ifs, itries>>

\* no try qualified: the error that lists the tries
ImportFailed ==
    /\ ImpOnly
    /\ ipc = "stat" /\ iidx > Len(itries)
    /\ ImportReturn("nonefound")
    /\ UNCHANGED <<ifname, icur, inash, ifs, itries, iidx, iexec>>

InitImport ==
    /\ ScopeIdle /\ PipeIdle /\ LoopIdle /\ WalkIdle /\ CmdIdle /\ AsgIdle /\ RetIdle /\ EnvIdle /\ BindIdle /\ CndIdle /\ ParseIdle
    /\ ifname \in ImportNames /\ icur \in CurrentFiles /\ inash \in NashPaths
    /\ ifs \in [KnownPaths(ifname, icur) -> {"missing", "dir", "file"}]
    /\ ipc = "eval"
    /\ itries = <<>> /\ iidx = 0 /\ iexec = <<>> /\ iret = "none"

NextImport ==
    \/ \E ok \in BOOLEAN : ImportEval(ok)
    \/ ImportAbsolute
    \/ ImportTries
    \/ ImportStat
    \/ ImportFailed

SpecImport == InitImport /\ [][NextImport]_vars_all

\* ---------------------------------------------------------------------------
\* Properties of import
\* ---------------------------------------------------------------------------

ImportDone == ipc = "done" /\ iret # "evalerror"
IsAbsolute(p) == Len(p) > 0 /\ SubSeq(p, 1, 1) = "/"
HasSuffix(p) == Len(p) >= 3 /\ SubSeq(p, Len(p) - 2, Len(p)) = ".sh"

\* the index of the first path of c that is a file, 0 when there is none
FirstFile(c) ==
    IF \E i \in 1..Len(c) : ifs[c[i]] = "file"
    THEN CHOOSE i \in 1..Len(c) :
             ifs[c[i]] = "file" /\ \A j \in 1..(i - 1) : ifs[c[j]] # "file"
    ELSE 0

\* the outcome of a search over the candidates c
SearchOutcome(c) ==
    IF FirstFile(c) # 0
    THEN iret = "executed" /\ iexec = <<c[FirstFile(c)]>>
    ELSE iret = "nonefound" /\ iexec = <<>>

\* the six candidates in the order of the claim; ext: p counts as having
\* the suffix; the directory of the current file only when there is one
Candidates(p, ext) ==
    <<p>>
    \o (IF ext THEN <<>> ELSE <<p \o ".sh">>)
    \o (IF icur = "" THEN <<>> ELSE <<Dir(icur) \o "/" \o p>>)
    \o (IF icur = "" \/ ext THEN <<>> ELSE <<Dir(icur) \o "/" \o p \o ".sh">>)
    \o <<ObjString(inash) \o "/lib/" \o p>>
    \o (IF ext THEN <<>> ELSE <<ObjString(inash) \o "/lib/" \o p \o ".sh">>)

NashpathIsString == inash # NilObj /\ inash.type = "string"

\* C17: for any import path p, NASHPATH being set, the first of the six
\* candidates that is a file is the one executed, and no other; when none
\* is, the error that lists the tries is returned and nothing is executed.
C17_Claim ==
    (ImportDone /\ NashpathIsString) =>
        SearchOutcome(Candidates(ifname, HasSuffix(ifname)))

\* C17 as the code has it: the search is made for the paths that do not
\* begin with '/', and a path counts as having the suffix only when it is
\* longer than ".sh"; a path that begins with '/' is handed to ExecFile with
\* no search: it is executed if it is a file and an error is returned if not.
C17_ImportSearch ==
    (ImportDone /\ NashpathIsString) =>
        IF IsAbsolute(ifname)
        THEN IF ifs[ifname] = "file"
             THEN iret = "executed" /\ iexec = <<ifname>>
             ELSE iret = "error" /\ iexec = <<>>
        ELSE SearchOutcome(Candidates(ifname, HasSuffix(ifname) /\ Len(ifname) > 3))

\* `import u` from /d/m with NASHPATH=/n: u is a directory, only
\* /n/lib/u.sh is a file, and it is the one executed.
C17_Witness ==
    /\ ipc = "done" /\ ifname = "u" /\ icur = "/d/m" /\ inash = NewStrObj("/n")
    /\ ifs["u"] = "dir" /\ ifs["/n/lib/u.sh"] = "file"
    /\ \A q \in DOMAIN ifs : q \notin {"u", "/n/lib/u.sh"} => ifs[q] = "missing"
    /\ iexec = <<"/n/lib/u.sh">> /\ iret = "executed"

\* C18: whenever NASHPATH is not set, an import returns an error and
\* executes no file, whatever the path.
C18_Claim ==
    (ipc = "done" /\ inash = NilObj) =>
        (iret \in {"error", "evalerror", "nonefound"} /\ iexec = <<>>)

\* C18 as the code has it: that holds of the paths that do not begin with
\* '/', even if the path itself is a file; a path that begins with '/' is
\* executed without NASHPATH being looked at.
C18_NashpathRequired ==
    (ImportDone /\ inash = NilObj) =>
        IF IsAbsolute(ifname) /\ ifs[ifname] = "file"
        THEN iret = "executed" /\ iexec = <<ifname>>
        ELSE iret = "error" /\ iexec = <<>>

\* `import u` with NASHPATH unset where u is a file: an error, u not run.
C18_Witness ==
    /\ ipc = "done" /\ ifname = "u" /\ inash = NilObj
    /\ ifs["u"] = "file"
    /\ iret = "error" /\ iexec = <<>>

\* ---------------------------------------------------------------------------
\* executeExecAssign: ident <= command | pipe | function invocation
\* ---------------------------------------------------------------------------

\* the characters of the outputs of the model, and the outputs
Alphabet == {"x", " ", "\n"}

RECURSIVE Strs(_)
Strs(n) ==
    IF n = 0 THEN {""}
    ELSE LET P == Strs(n - 1) IN P \cup {s \o c : s \in P, c \in Alphabet}

\* the values of IFS in the model: not bound, a string, lists
IFSValues == {NilObj, NewStrObj(" "), NewListObj(<<>>), NewListObj(<<" ">>),
              NewListObj(<<" ", "\n">>), NewListObj(<<"x ", "">>)}

\* The delimiters the callback of FieldsFunc accepts: the first character of
\* every non-empty string of the list.
Delims(l) == {SubSeq(l[i], 1, 1) : i \in {j \in 1..Len(l) : Len(l[j]) > 0}}

\* A faulty splitter that cuts at every delimiter and keeps empty pieces.
RECURSIVE SplitAtEach(_, _, _)
SplitAtEach(s, D, cur) ==
    IF Len(s) = 0 THEN <<cur>>
    ELSE IF SubSeq(s, 1, 1) \in D
    THEN <<cur>> \o SplitAtEach(SubSeq(s, 2, Len(s)), D, "")
    ELSE SplitAtEach(SubSeq(s, 2, Len(s)), D, cur \o SubSeq(s, 1, 1))

\* strings.FieldsFunc(s, f): s cut at each run of characters that satisfy f;
\* no empty string is returned. cur is the field being collected.
RECURSIVE FieldsFunc(_, _, _)
FieldsFunc(s, D, cur) ==
    IF Len(s) = 0 THEN (IF cur = "" THEN <<>> ELSE <<cur>>)
    ELSE IF SubSeq(s, 1, 1) \in D
    THEN (IF cur = "" THEN <<>> ELSE <<cur>>)
         \o FieldsFunc(SubSeq(s, 2, Len(s)), D, "")
    ELSE FieldsFunc(SubSeq(s, 2, Len(s)), D, cur \o SubSeq(s, 1, 1))

\* the value bound to the identifier for the captured output out
SplitOutput(out, sep) ==
    IF sep # NilObj /\ sep.type = "list" /\ Len(sep.list) > 0
    THEN NewListObj(FieldsFunc(out, Delims(sep.list), ""))
    ELSE NewStrObj(out)

\* A faulty entry that leaves sh.stdout as it is.
AssignEnterNoBuffer ==
    /\ AsgOnly
    /\ apc = "entry"
    /\ abk' = astdout
    /\ apc' = "run"
    /\ UNCHANGED <<akind, aifs, aorig, awrite, astdout, abuf, awritten, abound,
                   aret>>

\* bkStdout := sh.stdout; sh.SetStdout(&varOut); the restore is deferred
AssignEnter ==
    /\ AsgOnly
    /\ apc = "entry"
    /\ abk' = astdout
    /\ astdout' = "varOut"
    /\ apc' = "run"
    /\ UNCHANGED <<akind, aifs, aorig, awrite, abuf, awritten, abound, aret>>

\* executeCommand / executePipe: the runner (the last stage) gets sh.stdout
\* as its stdout and writes awrite to it; the call returns nil or an error.
\* Any other node that is no function invocation is an error.
AssignRun(ok) ==
    /\ AsgOnly
    /\ apc = "run" /\ akind # "fninv"
    /\ akind = "other" => ~ok
    /\ IF astdout = "varOut"
       THEN abuf' = abuf \o awrite /\ UNCHANGED awritten
       ELSE awritten' = awritten \o awrite /\ UNCHANGED abuf
    /\ aret' = IF ok THEN "nil" ELSE "error"
    /\ apc' = "bind"
    /\ UNCHANGED <<akind, aifs, aorig, awrite, astdout, abk, abound>>

\* case ast.NodeFnInv: the error of executeFnInv, the error for a function
\* that returned no value (v = NilObj), or Setvar(ident, fnValues)
AssignFnInv(ok, v) ==
    /\ AsgOnly
    /\ apc = "run" /\ akind = "fninv"
    /\ ~ok => v = NilObj
    /\ IF ok /\ v # NilObj
       THEN abound' = v /\ aret' = "nil"
       ELSE aret' = "error" /\ UNCHANGED abound
    /\ apc' = "deferred"
    /\ UNCHANGED <<akind, aifs, aorig, awrite, astdout, abk, abuf, awritten>>

\* outStr := string(varOut.Bytes()); the test of IFS; Setvar; return err
AssignBind ==
    /\ AsgOnly
    /\ apc = "bind"
    /\ abound' = SplitOutput(abuf, aifs)
    /\ apc' = "deferred"
    /\ UNCHANGED <<akind, aifs, aorig, awrite, astdout, abk, abuf, awritten,
                   aret>>

\* the deferred sh.SetStdout(bkStdout)
AssignRestore ==
    /\ AsgOnly
    /\ apc = "deferred"
    /\ astdout' = abk
    /\ apc' = "done"
    /\ UNCHANGED <<akind, aifs, aorig, awrite, abk, abuf, awritten, abound,
                   aret>>

InitAssign ==
    /\ ScopeIdle /\ PipeIdle /\ LoopIdle /\ WalkIdle /\ CmdIdle /\ ImpIdle /\ RetIdle /\ EnvIdle /\ BindIdle /\ CndIdle /\ ParseIdle
    /\ akind \in {"command", "pipe", "fninv", "other"}
    /\ aifs \in IFSValues
    /\ aorig \in {"os.Stdout", "custom"}
    /\ awrite \in Strs(MaxOut)
    /\ akind \in {"fninv", "other"} => awrite = ""
    /\ astdout = aorig /\ abk = aorig
    /\ abuf = "" /\ awritten = "" /\ abound = NilObj
    /\ aret = "none" /\ apc = "entry"

NextAssign ==
    \/ AssignEnter
    \/ \E ok \in BOOLEAN : AssignRun(ok)
    \/ \E ok \in BOOLEAN, v \in Objs \cup {NilObj} : AssignFnInv(ok, v)
    \/ AssignBind
    \/ AssignRestore

SpecAssign == InitAssign /\ [][NextAssign]_vars_all

\* ---------------------------------------------------------------------------
\* Properties of the exec-assign
\* ---------------------------------------------------------------------------

\* C19: on every exit path of executeExecAssign the stdout of the scope is
\* again the writer it was before the statement, and nothing the command or
\* pipe wrote to the evaluator's stdout during the statement reached it.
C19_StdoutRestored ==
    /\ awritten = ""
    /\ apc = "done" => astdout = aorig
    /\ apc \in {"bind", "deferred", "done"} /\ akind \in {"command", "pipe"} =>
           abuf = awrite

\* `out <= cmd` failed after cmd wrote "x x" while stdout was a writer of
\* the embedding program: the writer is back and got nothing.
C19_Witness ==
    /\ apc = "done" /\ akind = "command" /\ aret = "error"
    /\ aorig = "custom" /\ astdout = "custom"
    /\ awrite = "x x" /\ abuf = "x x" /\ awritten = ""

SingleChars(l) == \A i \in 1..Len(l) : Len(l[i]) = 1
SplittingIFS == aifs # NilObj /\ aifs.type = "list" /\ Len(aifs.list) > 0
                /\ SingleChars(aifs.list)
NoIFS == aifs = NilObj \/ aifs.type # "list" \/ Len(aifs.list) = 0
AssignedOutput == apc = "done" /\ akind \in {"command", "pipe"}

RECURSIVE IsFieldList(_, _, _)
IsFieldList(fs, s, D) ==
    IF Len(s) = 0 THEN fs = <<>>
    ELSE IF SubSeq(s, 1, 1) \in D THEN IsFieldList(fs, SubSeq(s, 2, Len(s)), D)
    ELSE /\ Len(fs) > 0
         /\ LET f == fs[1] IN
            /\ Len(f) > 0 /\ Len(f) <= Len(s) /\ SubSeq(s, 1, Len(f)) = f
            /\ \A i \in 1..Len(f) : SubSeq(f, i, i) \notin D
            /\ (Len(f) = Len(s) \/ SubSeq(s, Len(f) + 1, Len(f) + 1) \in D)
            /\ IsFieldList(Tail(fs), SubSeq(s, Len(f) + 1, Len(s)), D)

MaxFrames == 4

RDepth == Len(rstack)
RTop == rstack[RDepth]

\* A walk of executeTree over a block of n nodes: the body of the function
\* ("fn"), an if or else block ("if"), the body of a for statement ("body").
Block(role, st, n) ==
    [t |-> "walk", role |-> role, stopable |-> st, left |-> n, n |-> 0,
     lkind |-> "", pc |-> "", byret |-> FALSE]

\* An activation of executeFor: left, the elements not yet iterated; n, the
\* nodes of the body; byret records that the walk of the last body ended on a
\* return statement (the code keeps no such thing).
ForStmt(k, it, n) ==
    [t |-> "for", role |-> "for", stopable |-> FALSE, left |-> it, n |-> n,
     lkind |-> k, pc |-> "iter", byret |-> FALSE]

\* A faulty loop that walks its body as an if block is walked.
BodyWalkNotStopable(n) == Block("body", FALSE, n)

\* executeTree(n.Tree(), true) of executeFor, executeTree(tr, true) of
\* executeInfLoop
BodyWalk(n) == Block("body", TRUE, n)

\* executeTree(n.IfTree(), false), executeTree(n.ElseTree(), false)
IfWalk(n) == Block("if", FALSE, n)

\* the walk of the function body
FnWalk(n) == Block("fn", TRUE, n)

InLoop == \E i \in 1..RDepth : rstack[i].t = "for"
RAtNode == RDepth > 0 /\ RTop.t = "walk" /\ ~rpend.set /\ RTop.left > 0

\* A walk or a for statement returns r to the one that called it: the walk
\* of a body to its for statement, everything else to a walk, and the walk of
\* the function body to the caller of the function.
Deliver(r) ==
    IF RDepth = 1
    THEN /\ rstack' = <<>>
         /\ rres' = r
         /\ rpend' = NoRes
    ELSE /\ rstack' = [i \in 1..(RDepth - 1) |->
                          IF i = RDepth - 1 /\ RTop.role = "body"
                          THEN [rstack[i] EXCEPT !.byret = (rpend.err = "stop")]
                          ELSE rstack[i]]
         /\ rpend' = r
         /\ UNCHANGED rres

\* a function is called: its body is walked in a subshell with isFn set
CallFn(n) ==
    /\ RetOnly
    /\ rstack = <<>>
    /\ rstack' = <<FnWalk(n)>>
    /\ rpend' = NoRes /\ rres' = NoRes /\ rdirect' = NoRes /\ rhist' = "none"
    /\ UNCHANGED rintr

\* a node that is no return, if or for statement: nil, an error, or an
\* Interrupted error (of a function it calls)
FnNode(e) ==
    /\ RetOnly
    /\ RAtNode
    /\ rpend' = Res(NilObj, e)
    /\ rhist' = IF rhist = "loopdone" THEN "after" ELSE rhist
    /\ UNCHANGED <<rstack, rres, rintr, rdirect>>

\* case ast.NodeReturn with sh.IsFn(): the value and the StopWalking carrier
FnReturn(v) ==
    /\ RetOnly
    /\ RAtNode
    /\ rpend' = Res(v, "stop")
    /\ rdirect' = IF InLoop THEN rdirect ELSE Res(v, "nil")
    /\ UNCHANGED <<rstack, rres, rintr, rhist>>

\* case ast.NodeIf when a block is chosen
FnIf(n) ==
    /\ RetOnly
    /\ RAtNode /\ RDepth < MaxFrames
    /\ rstack' = Append(rstack, IfWalk(n))
    /\ UNCHANGED <<rpend, rres, rintr, rdirect, rhist>>

\* case ast.NodeFor: executeFor, with a range that evaluates to a list
FnFor(k, it, n) ==
    /\ RetOnly
    /\ RAtNode /\ RDepth < MaxFrames - 1
    /\ k = "inf" => it = 0
    /\ rstack' = Append(rstack, ForStmt(k, it, n))
    /\ UNCHANGED <<rpend, rres, rintr, rdirect, rhist>>

\* the head of an iteration: the range is exhausted and executeFor returns
\* nil, or the body is walked
LoopHead ==
    /\ RetOnly
    /\ RDepth > 0 /\ RTop.t = "for" /\ RTop.pc = "iter"
    /\ IF RTop.lkind = "list" /\ RTop.left = 0
       THEN /\ Deliver(Res(NilObj, "nil"))
            /\ rhist' = IF rhist = "consumed"
                           /\ \A i \in 1..(RDepth - 1) : rstack[i].t # "for"
                        THEN "loopdone" ELSE rhist
       ELSE /\ rstack' = [rstack EXCEPT ![RDepth].pc = "body"]
                             \o <<BodyWalk(RTop.n)>>
            /\ UNCHANGED <<rpend, rres, rhist>>
    /\ UNCHANGED <<rintr, rdirect>>

\* After the body: "obj, err = sh.executeTree(...)", obj is used no more. An
\* Interrupted error is returned as it is; else the flag is tested and
\* cleared; an error ends the loop; else the next iteration.
LoopAfterBody ==
    /\ RetOnly
    /\ RDepth > 0 /\ RTop.t = "for" /\ RTop.pc = "body" /\ rpend.set
    /\ LET e == IF rpend.err = "interrupted" THEN "interrupted"
                ELSE IF rintr THEN "interrupted" ELSE rpend.err
       IN  IF e # "nil"
           THEN Deliver(Res(NilObj, e))
           ELSE /\ rstack' = [rstack EXCEPT
                                 ![RDepth].pc = "iter",
                                 ![RDepth].left = IF RTop.lkind = "list"
                                                  THEN @ - 1 ELSE @]
                /\ rpend' = NoRes
                /\ UNCHANGED rres
    /\ rintr' = IF rpend.err = "interrupted" THEN rintr ELSE FALSE
    /\ UNCHANGED <<rdirect, rhist>>

\* the loop of executeTree over root.Nodes, after executeNode
BlockStep ==
    /\ RetOnly
    /\ RDepth > 0 /\ RTop.t = "walk" /\ rpend.set
    /\ LET d == executeTree(RTop.stopable, rpend)
       IN  IF d.continue
           THEN /\ rstack' = [rstack EXCEPT ![RDepth].left = @ - 1]
                /\ rpend' = NoRes
                /\ UNCHANGED <<rres, rhist>>
           ELSE /\ Deliver(d.res)
                /\ rhist' = IF RTop.role = "body" /\ rpend.err = "stop"
                               /\ d.res.err = "nil" /\ rhist = "none"
                            THEN "consumed" ELSE rhist
    /\ UNCHANGED <<rintr, rdirect>>

\* no node is left: return nil, nil
BlockEnd ==
    /\ RetOnly
    /\ RDepth > 0 /\ RTop.t = "walk" /\ ~rpend.set /\ RTop.left = 0
    /\ Deliver(Res(NilObj, "nil"))
    /\ UNCHANGED <<rintr, rdirect, rhist>>

\* the listener handles a SIGINT and finds the root looping: setIntr(true)
HandleSIGINT ==
    /\ RetOnly
    /\ ~rintr
    /\ rintr' = TRUE
    /\ UNCHANGED <<rstack, rpend, rres, rdirect, rhist>>

InitFnFor ==
    /\ ScopeIdle /\ PipeIdle /\ LoopIdle /\ WalkIdle /\ CmdIdle /\ ImpIdle /\ AsgIdle /\ EnvIdle /\ BindIdle /\ CndIdle /\ ParseIdle
    /\ RetIdle

NextFnFor ==
    \/ \E n \in 0..MaxNodes : CallFn(n)
    \/ \E e \in {"nil", "error", "interrupted"} : FnNode(e)
    \/ \E v \in {NilObj, NewStrObj("u")} : FnReturn(v)
    \/ \E n \in 0..MaxNodes : FnIf(n)
    \/ \E k \in Kinds, it \in 0..MaxIter, n \in 0..MaxNodes : FnFor(k, it, n)
    \/ LoopHead
    \/ LoopAfterBody
    \/ BlockStep
    \/ BlockEnd
    \/ HandleSIGINT

SpecFnFor == InitFnFor /\ [][NextFnFor]_vars_all

\* ---------------------------------------------------------------------------
\* Properties of return inside a for body
\* ---------------------------------------------------------------------------

\* a step of the evaluator on what was returned to the innermost frame
RetStep == RDepth > 0 /\ rpend.set /\ rstack' # rstack

\* C28: a return executed in the body of a for loop of a function, directly
\* or inside an if block of that body, is consumed by the walk of that one
\* iteration: the walk of the if block hands the carrier on, the walk of the
\* body returns the value and no error to the for statement, which drops
\* the value and goes on with the next element unless the flag is set; what
\* a for statement returns carries no value, the function returns a value
\* only from a return outside of every for body, and an infinite loop whose
\* body ended on a return ends with an Interrupted error or not at all.
C28_ReturnEndsIteration ==
    /\ [](rres.set =>
            /\ rres.err # "stop"
            /\ rres.obj # NilObj => (rdirect.set /\ rres.obj = rdirect.obj))
    /\ [][RetStep =>
            /\ (RTop.t = "walk" /\ rpend.err = "stop") =>
                   /\ RDepth' = RDepth - 1
                   /\ RTop.role = "if" => rpend' = rpend
                   /\ RTop.role = "body" =>
                          /\ rpend' = Res(rpend.obj, "nil")
                          /\ RTop'.t = "for" /\ RTop'.byret
            /\ (RTop.t = "for" /\ RTop.byret) =>
                   IF rintr
                   THEN /\ RDepth' = RDepth - 1
                        /\ rpend' = Res(NilObj, "interrupted")
                   ELSE /\ RDepth' = RDepth /\ RTop'.pc = "iter"
                        /\ RTop'.left = IF RTop.lkind = "list"
                                        THEN RTop.left - 1 ELSE RTop.left
                        /\ ~rpend'.set
            /\ (RTop.t = "for" /\ RDepth' < RDepth) =>
                   /\ rpend'.obj = NilObj
                   /\ RTop.lkind = "inf" =>
                          /\ rpend'.err \in {"interrupted", "error"}
                          /\ RTop.byret => rpend'.err = "interrupted"]_vars_all

\* A function whose for loop consumed a return went on to the statement
\* after the loop and returned no value.
C28_Witness ==
    /\ rhist = "after" /\ rstack = <<>>
    /\ rres = Res(NilObj, "nil") /\ ~rdirect.set

\* ---------------------------------------------------------------------------
\* NewShell: setup and initEnv
\* ---------------------------------------------------------------------------

\* entries of the process environment
MaxEnv == 2

\* the entries os.Environ() may hold, each NAME=VALUE
EnvEntries == {"a=u", "a=", "a=u=w", "b=w", "argv=u", "SHELL=s", "PROMPT=p",
               "PID=7"}

\* os.Args; os.Getpid(), os.Getwd(), nashdAutoDiscover() and defPrompt as
\* strings
OsArgs == <<"nash">>
OsPid == "1"
OsCwd == "/d"
NashdPath == "/nashd"
defPrompt == "nash> "

\* s cut at its first sep: what stands before it and what stands after it
SplitAtFirst(s, sep, cur) ==
    LET RECURSIVE At(_)
        At(i) == IF i > Len(s) THEN 0
                 ELSE IF SubSeq(s, i, i) = sep THEN i ELSE At(i + 1)
    IN  IF At(1) = 0 THEN <<s>>
        ELSE <<SubSeq(s, 1, At(1) - 1), SubSeq(s, At(1) + 1, Len(s))>>

\* strings.Split(s, sep) for a separator of one character: the pieces of s
\* between the occurrences of sep, empty pieces included; cur is the piece
\* being read.
RECURSIVE Split(_, _, _)
Split(s, sep, cur) ==
    IF s = "" THEN <<cur>>
    ELSE IF SubSeq(s, 1, 1) = sep
    THEN <<cur>> \o Split(SubSeq(s, 2, Len(s)), sep, "")
    ELSE Split(SubSeq(s, 2, Len(s)), sep, cur \o SubSeq(s, 1, 1))

\* sh.Setenv(n, v) and sh.Setvar(n, v) on the root
EnvBind(n, v) ==
    /\ eenv' = [eenv EXCEPT ![n] = v]
    /\ evars' = [evars EXCEPT ![n] = v]

\* NewShell() with the process environment penv: setup calls initEnv, which
\* binds argv to the list of os.Args
EnvStart(penv) ==
    /\ EnvOnly
    /\ epc = "idle"
    /\ eproc' = penv
    /\ eenv' = [n \in EnvNames |-> IF n = "argv" THEN NewListObj(OsArgs) ELSE NilObj]
    /\ evars' = [n \in EnvNames |-> IF n = "argv" THEN NewListObj(OsArgs) ELSE NilObj]
    /\ eidx' = 1
    /\ epc' = "entries" /\ eret' = "none"

\* for _, penv := range processEnv
EnvEntry ==
    /\ EnvOnly
    /\ epc = "entries" /\ eidx <= Len(eproc)
    /\ LET p == Split(eproc[eidx], "=", "")
       IN  IF Len(p) = 2 /\ p[1] # "argv"
           THEN EnvBind(p[1], NewStrObj(p[2]))
           ELSE UNCHANGED <<eenv, evars>>
    /\ eidx' = eidx + 1
    /\ UNCHANGED <<eproc, epc, eret>>

\* sh.Setenv("PID", pidVal); sh.Setvar("PID", pidVal)
EnvPID ==
    /\ EnvOnly
    /\ epc = "entries" /\ eidx > Len(eproc)
    /\ EnvBind("PID", NewStrObj(OsPid))
    /\ epc' = "SHELL"
    /\ UNCHANGED <<eproc, eidx, eret>>

\* if _, ok := sh.Getenv("SHELL"); !ok
EnvSHELL ==
    /\ EnvOnly
    /\ epc = "SHELL"
    /\ IF eenv["SHELL"] = NilObj
       THEN EnvBind("SHELL", NewStrObj(NashdPath))
       ELSE UNCHANGED <<eenv, evars>>
    /\ epc' = "PWD"
    /\ UNCHANGED <<eproc, eidx, eret>>

\* cwd, err := os.Getwd(): the error is returned and NewShell fails
EnvPWD(ok) ==
    /\ EnvOnly
    /\ epc = "PWD"
    /\ IF ok
       THEN /\ EnvBind("PWD", NewStrObj(OsCwd))
            /\ epc' = "PROMPT"
            /\ UNCHANGED eret
       ELSE /\ epc' = "done" /\ eret' = "error"
            /\ UNCHANGED <<eenv, evars>>
    /\ UNCHANGED <<eproc, eidx>>

\* setup: if sh.env["PROMPT"] == nil; then setupBuiltin and setupSignals
EnvPROMPT ==
    /\ EnvOnly
    /\ epc = "PROMPT"
    /\ IF eenv["PROMPT"] = NilObj
       THEN EnvBind("PROMPT", NewStrObj(defPrompt))
       ELSE UNCHANGED <<eenv, evars>>
    /\ epc' = "done" /\ eret' = "nil"
    /\ UNCHANGED <<eproc, eidx>>

\* the shell is dropped and another one is made
EnvAgain ==
    /\ EnvOnly
    /\ epc = "done"
    /\ eproc' = <<>> /\ eidx' = 0
    /\ eenv' = [n \in EnvNames |-> NilObj]
    /\ evars' = [n \in EnvNames |-> NilObj]
    /\ epc' = "idle" /\ eret' = "none"

\* the name of an entry: what stands before its first '='
EntryName(e) == SplitAtFirst(e, "=", "")[1]
EntryValue(e) == SplitAtFirst(e, "=", "")[2]

\* process environments: no name twice
Environs ==
    {s \in UNION {[1..k -> EnvEntries] : k \in 0..MaxEnv} :
        \A i \in DOMAIN s, j \in DOMAIN s :
            EntryName(s[i]) = EntryName(s[j]) => i = j}

InitEnv ==
    /\ ScopeIdle /\ PipeIdle /\ LoopIdle /\ WalkIdle /\ CmdIdle /\ ImpIdle /\ AsgIdle /\ RetIdle /\ BindIdle /\ CndIdle /\ ParseIdle
    /\ EnvIdle

NextEnv ==
    \/ \E penv \in Environs : EnvStart(penv)
    \/ EnvEntry
    \/ EnvPID
    \/ EnvSHELL
    \/ \E ok \in BOOLEAN : EnvPWD(ok)
    \/ EnvPROMPT
    \/ EnvAgain

SpecEnv == InitEnv /\ [][NextEnv]_vars_all

\* ---------------------------------------------------------------------------
\* Properties of the start of a shell
\* ---------------------------------------------------------------------------

EnvDone == epc = "done" /\ eret = "nil"
InEnviron(n) == \E i \in 1..Len(eproc) : EntryName(eproc[i]) = n

\* C25: after NewShell, env and vars of the root map the name of every entry
\* NAME=VALUE of the process environment, argv excepted, to the string
\* VALUE, whatever characters VALUE holds; argv is the list of the
\* arguments, PID and PWD are set, and SHELL and PROMPT get their defaults
\* only when the environment has none.
C25_Claim ==
    EnvDone =>
        /\ \A i \in 1..Len(eproc) :
               EntryName(eproc[i]) \notin {"argv", "PID", "PWD"} =>
                   /\ eenv[EntryName(eproc[i])] = NewStrObj(EntryValue(eproc[i]))
                   /\ evars[EntryName(eproc[i])] = NewStrObj(EntryValue(eproc[i]))
        /\ eenv["argv"] = NewListObj(OsArgs) /\ evars["argv"] = NewListObj(OsArgs)
        /\ eenv["PID"] = NewStrObj(OsPid) /\ eenv["PWD"] = NewStrObj(OsCwd)
        /\ ~InEnviron("SHELL") => eenv["SHELL"] = NewStrObj(NashdPath)
        /\ ~InEnviron("PROMPT") => eenv["PROMPT"] = NewStrObj(defPrompt)

\* ---------------------------------------------------------------------------
\* bindfn and getCommand
\* ---------------------------------------------------------------------------

\* the arguments a function declares; a function is known by their number
MaxArity == 1

Arities == 0..MaxArity
BindShells == {Root, FnShell}     \* FnShell has the root as parent

\* Getbindfn: own binds first, then the parent's
Getbindfn(s, c) ==
    IF bbinds[s][c] # NoFn THEN bbinds[s][c]
    ELSE IF s # Root THEN bbinds[Root][c] ELSE NoFn

\* len(c.Args())
NodeArgs == bnode.written + bnode.padded

\* another command of the source is parsed: name, leading '-', arguments
ParseCommand(c, m, n) ==
    /\ BindOnly
    /\ bnode' = CmdNode(c, m, n)
    /\ bres' = NoCmd
    /\ UNCHANGED bbinds

\* executeBindFn in shell s when GetFn finds the function: Setbindfn
ExecBindFn(s, c, f) ==
    /\ BindOnly
    /\ bbinds' = [bbinds EXCEPT ![s][c] = f]
    /\ bres' = NoCmd
    /\ UNCHANGED bnode

\* getCommand(c) in shell s; lookup is what NewCmd(cmdName) answers: the
\* command ("found"), a NotFound error ("notfound") or another error.
\* The arguments the function lacks are appended to the node c itself.
GetCommand(s, lookup) ==
    /\ BindOnly
    /\ LET fn == Getbindfn(s, bnode.name)
           r == [lookup |-> lookup, fn |-> fn, given |-> NodeArgs,
                 ignore |-> bnode.minus]
       IN  IF lookup = "found"
           THEN /\ bres' = r @@ [kind |-> "cmd", args |-> NodeArgs]
                /\ UNCHANGED bnode
           ELSE IF lookup = "notfound" /\ fn # NoFn
           THEN IF NodeArgs > fn
                THEN /\ bres' = r @@ [kind |-> "error", args |-> 0]
                     /\ UNCHANGED bnode
                ELSE /\ bnode' = [bnode EXCEPT !.padded = fn - bnode.written]
                     /\ bres' = r @@ [kind |-> "fn", args |-> fn]
           ELSE /\ bres' = r @@ [kind |-> "error", args |-> 0]
                /\ UNCHANGED bnode
    /\ UNCHANGED bbinds

InitBind ==
    /\ ScopeIdle /\ PipeIdle /\ LoopIdle /\ WalkIdle /\ CmdIdle /\ ImpIdle /\ AsgIdle /\ RetIdle /\ EnvIdle /\ CndIdle /\ ParseIdle
    /\ BindIdle

NextBind ==
    \/ \E c \in CmdNames, m \in BOOLEAN, n \in 0..(MaxArity + 1) :
           ParseCommand(c, m, n)
    \/ \E s \in BindShells, c \in CmdNames, f \in Arities : ExecBindFn(s, c, f)
    \/ \E s \in BindShells, lookup \in {"found", "notfound", "other"} :
           GetCommand(s, lookup)

SpecBind == InitBind /\ [][NextBind]_vars_all

\* ---------------------------------------------------------------------------
\* Properties of bindfn
\* ---------------------------------------------------------------------------

\* getCommand has just returned; the bound function was its choice
Looked == bres.kind # "none"
ChoseBound == bres.lookup = "notfound" /\ bres.fn # NoFn

\* C22: a command is run as a user function exactly when the lookup of its
\* name on PATH fails with NotFound and bindfn has bound the name in the
\* current scope or an ancestor; a command that is found is run as the
\* external command whatever is bound. When the bound function is chosen, a
\* command written with more arguments than the function declares is an
\* error, and one written with fewer is run with empty strings added up to
\* that number.
C22_Claim ==
    Looked =>
        /\ bres.kind = "fn" => ChoseBound
        /\ bres.lookup = "found" => bres.kind = "cmd"
        /\ ChoseBound =>
               IF bnode.written > bres.fn THEN bres.kind = "error"
               ELSE bres.kind = "fn" /\ bres.args = bres.fn

\* The same of one call of getCommand, with the arguments the node has when
\* the call begins in the place of the arguments as written.
C22_OfTheNode ==
    Looked =>
        /\ bres.kind = "fn" => ChoseBound
        /\ bres.lookup = "found" => bres.kind = "cmd"
        /\ ChoseBound =>
               IF bres.given > bres.fn THEN bres.kind = "error"
               ELSE bres.kind = "fn" /\ bres.args = bres.fn /\ NodeArgs = bres.fn

\* ---------------------------------------------------------------------------
\* The if statement: parseIf, evalIfArguments, executeIf
\* ---------------------------------------------------------------------------

\* the operands of a comparison: a string literal or a variable
IfOperands == {Tok("String", "u"), Tok("String", "w"),
               Tok("Variable", "$a"), Tok("Variable", "$b")}
IfOps == {"==", "!="}

\* parseIf on `if l op r { ... }`, with an else block when e: a string on the
\* left is a quoted StringExpr and a variable goes through parseVariable; on
\* the right a string is a quoted StringExpr and a variable is an unquoted
\* StringExpr of the token's value.
parseIf(l, op, r, e) ==
    [lvalue |-> IF l.type = "String" THEN StringExpr(l.value, TRUE)
                ELSE VarExpr(l.value),
     op |-> op,
     rvalue |-> IF r.type = "String" THEN StringExpr(r.value, TRUE)
                ELSE StringExpr(r.value, FALSE),
     elseTree |-> e]

\* varName[1:]
VarName(v) == SubSeq(v, 2, Len(v))

\* evalExpr on a StringExpr or a VarExpr: the object and no error, or the
\* error of evalVariable for a name that is not set
evalIfExpr(e) ==
    IF e.kind = "string" THEN [obj |-> NewStrObj(e.value), ok |-> TRUE]
    ELSE [obj |-> cndBound[VarName(e.value)],
          ok |-> cndBound[VarName(e.value)] # NilObj]

\* evalIfArguments: the two strings, or an error
evalIfArguments(n) ==
    LET lobj == evalIfExpr(n.lvalue)
        robj == evalIfExpr(n.rvalue)
    IN  IF ~lobj.ok \/ ~robj.ok THEN [err |-> TRUE, l |-> "", r |-> ""]
        ELSE IF lobj.obj.type # "string" \/ robj.obj.type # "string"
        THEN [err |-> TRUE, l |-> "", r |-> ""]
        ELSE [err |-> FALSE, l |-> lobj.obj.str, r |-> robj.obj.str]

\* executeIfEqual / executeIfNotEqual: the tree to walk
chooseBlock(n, lstr, rstr) ==
    IF (n.op = "==" /\ lstr = rstr) \/ (n.op = "!=" /\ lstr # rstr) THEN "if"
    ELSE IF n.elseTree THEN "else" ELSE "none"

\* Setvar in the scope before the statement
CndSetvar(n, v) ==
    /\ CndOnly
    /\ cndPc = "idle"
    /\ cndBound' = [cndBound EXCEPT ![n] = v]
    /\ UNCHANGED <<cndSrc, cndNode, cndPc, cndBlock, cndRan, cndErr>>

\* the parser meets `if l op r { A }` or `if l op r { A } else { B }`
CndParse(l, op, r, e) ==
    /\ CndOnly
    /\ cndPc = "idle"
    /\ cndSrc' = [l |-> l, op |-> op, r |-> r, else |-> e]
    /\ cndNode' = parseIf(l, op, r, e)
    /\ cndPc' = "parsed"
    /\ cndBlock' = "none" /\ cndRan' = {} /\ cndErr' = FALSE
    /\ UNCHANGED cndBound

\* executeIf: the operator, evalIfArguments and the choice of the block
CndExecuteIf ==
    /\ CndOnly
    /\ cndPc = "parsed"
    /\ LET a == evalIfArguments(cndNode)
       IN  IF a.err
           THEN /\ cndErr' = TRUE /\ cndPc' = "done"
                /\ UNCHANGED cndBlock
           ELSE /\ cndBlock' = chooseBlock(cndNode, a.l, a.r)
                /\ cndPc' = IF chooseBlock(cndNode, a.l, a.r) = "none"
                            THEN "done" ELSE "block"
                /\ UNCHANGED cndErr
    /\ UNCHANGED <<cndSrc, cndNode, cndBound, cndRan>>

\* sh.executeTree(n.IfTree(), false) or sh.executeTree(n.ElseTree(), false)
CndBlock ==
    /\ CndOnly
    /\ cndPc = "block"
    /\ cndRan' = cndRan \cup {cndBlock}
    /\ cndPc' = "done"
    /\ UNCHANGED <<cndSrc, cndNode, cndBound, cndBlock, cndErr>>

\* the next statement of the source
CndNext ==
    /\ CndOnly
    /\ cndPc = "done"
    /\ cndPc' = "idle"
    /\ cndSrc' = NoIfSrc /\ cndNode' = NoIf
    /\ cndBlock' = "none" /\ cndRan' = {} /\ cndErr' = FALSE
    /\ UNCHANGED cndBound

InitIf ==
    /\ ScopeIdle /\ PipeIdle /\ LoopIdle /\ WalkIdle /\ CmdIdle /\ ImpIdle /\ AsgIdle /\ RetIdle /\ EnvIdle /\ BindIdle /\ ParseIdle
    /\ CndIdle

NextIf ==
    \/ \E n \in {"a", "b"}, v \in Objs : CndSetvar(n, v)
    \/ \E l \in IfOperands, op \in IfOps, r \in IfOperands, e \in BOOLEAN :
           CndParse(l, op, r, e)
    \/ CndExecuteIf
    \/ CndBlock
    \/ CndNext

SpecIf == InitIf /\ [][NextIf]_vars_all

\* ---------------------------------------------------------------------------
\* Properties of the if statement
\* ---------------------------------------------------------------------------

\* what an operand of the source stands for: the literal, or what the
\* variable is bound to
Meant(it) ==
    IF it.type = "String" THEN NewStrObj(it.value)
    ELSE cndBound[VarName(it.value)]

BothBound == Meant(cndSrc.l) # NilObj /\ Meant(cndSrc.r) # NilObj
BothStrings == Meant(cndSrc.l).type = "string" /\ Meant(cndSrc.r).type = "string"

\* the block the statement must execute on two strings
Expected ==
    IF (cndSrc.op = "==") = (Meant(cndSrc.l).str = Meant(cndSrc.r).str)
    THEN {"if"}
    ELSE IF cndSrc.else THEN {"else"} ELSE {}

\* C21: for `if L op R { A } else { B }` with L and R each a string literal
\* or a bound variable: at most one block is executed; when both operands
\* are strings (a variable standing for its value, on either side), A is
\* executed exactly when they are equal for `==` and different for `!=`,
\* otherwise B, or nothing with no else; an operand that is no string is an
\* error with no block executed.
C21_Claim ==
    (cndPc = "done" /\ BothBound) =>
        /\ Cardinality(cndRan) <= 1
        /\ IF BothStrings
           THEN ~cndErr /\ cndRan = Expected
           ELSE cndErr /\ cndRan = {}

\* The same when the right operand is a string literal.
C21_LiteralOnTheRight ==
    (cndPc = "done" /\ BothBound /\ cndSrc.r.type = "String") =>
        /\ Cardinality(cndRan) <= 1
        /\ IF BothStrings
           THEN ~cndErr /\ cndRan = Expected
           ELSE cndErr /\ cndRan = {}

(***************************************************************************)
(* The parser (ast/tree.go): parseBlock and the statements it reads, over  *)
(* a source the scanner hands over one token at a time.  Every sequence of *)
(* at most MaxTokens tokens of TokenAlphabet is a source.  Each action is the   *)
(* code from one read of a token to the next.                              *)
(***************************************************************************)
MaxTokens == 9    \* tokens of one source, the EOF not counted
MaxArgs == 1      \* arguments of one command or function invocation

\* The tokens of the sources: one identifier, one string, one comparison,
\* the punctuation of commands, pipes, blocks and argument lists, and the
\* keywords that open a block.
TokenAlphabet ==
    {Tok("Ident", "a"), Tok("String", "s"), Tok("Equal", "=="),
     Tok("Pipe", "|"), Tok("Semicolon", ";"), Tok("LBrace", "{"),
     Tok("RBrace", "}"), Tok("LParen", "("), Tok("RParen", ")"),
     Tok("For", "for"), Tok("If", "if"), Tok("Else", "else"),
     Tok("Fn", "fn"), Tok("Rfork", "rfork")}
EOF == Tok("EOF", "")

\* <-p.l.Tokens: what the scanner can emit next
Tokens ==
    IF round = 1
    THEN (IF lexed < MaxTokens THEN TokenAlphabet ELSE {}) \cup {EOF}
    ELSE {Head(content)}

\* what next(), peek() and ignore() read: the lookahead buffer when it is
\* filled, the next token of the scanner otherwise
Incoming == IF tok # NoTok THEN {tok} ELSE Tokens

\* the scanner once the parser has read it
Lex(it) ==
    /\ seen' = it
    /\ IF tok # NoTok
       THEN UNCHANGED <<content, lexed, braces>>
       ELSE /\ content' = IF round = 1 THEN content ELSE Tail(content)
            /\ lexed' = IF round = 1 THEN lexed + 1 ELSE lexed
            /\ braces' =
                 CASE it.type = "LBrace" -> [braces EXCEPT !.open = @ + 1]
                   [] it.type = "RBrace" ->
                        [braces EXCEPT !.close = @ + 1,
                                       !.low = @ \/ braces.close + 1 > braces.open]
                   [] OTHER -> braces

\* one call of a parse function: where it is, the node it builds and, for
\* parseStatement, the token it began with
Frame(fn, pc, n) == [fn |-> fn, pc |-> pc, node |-> n, it |-> NoTok]
Running == result = "running" /\ calls # <<>>
At(fn, pc) == Running /\ Head(calls).fn = fn /\ Head(calls).pc = pc
Callee(f) == <<f>> \o Tail(calls)
Call(f, caller) == <<f, caller>> \o Tail(calls)

\* the calls after the innermost of stk got n from the function it called:
\* a function with nothing left to read returns at once to its own caller
RECURSIVE Return(_, _)
Return(stk, n) ==
    LET f == Head(stk)
        rest == Tail(stk)
    IN  CASE f.fn = "Parse" ->
               <<[f EXCEPT !.pc = "done", !.node = n]>>
          [] f.fn \in {"parseBlock", "parsePipe"} ->
               <<[f EXCEPT !.node.body = Append(@, n),
                           !.pc = IF f.fn = "parseBlock" THEN "peek"
                                  ELSE "added"]>> \o rest
          [] f.fn \in {"parseFor", "parseFnDecl"} ->
               Return(rest, [f.node EXCEPT !.body = n.body])
          [] f.fn = "parseRfork" ->
               <<[f EXCEPT !.node.body = n.body, !.node.has = TRUE,
                           !.pc = "semi"]>> \o rest
          [] f.fn = "parseIf" /\ f.pc = "block" ->
               <<[f EXCEPT !.node.body = n.body, !.pc = "else"]>> \o rest
          [] f.fn = "parseIf" /\ f.pc = "elseret" ->
               Return(rest, [f.node EXCEPT !.els = n.body, !.has = TRUE,
                                           !.elseIf = n.elseIf])
          [] f.fn = "parseElse" /\ f.pc = "block" ->
               Return(rest, n)
          [] f.fn = "parseElse" /\ f.pc = "if" ->
               Return(rest, [NewListNode EXCEPT !.body = <<n>>,
                                                !.elseIf = TRUE])

\* the three ways a step ends: the parser goes on, the function returns n,
\* or Parse returns an error
Calls(stk) == calls' = stk /\ UNCHANGED <<result, root, reroot>>
Returns(n) ==
    LET stk == Return(Tail(calls), n)
        done == Head(stk).fn = "Parse" /\ Head(stk).pc = "done"
    IN  /\ calls' = IF done THEN <<>> ELSE stk
        /\ result' = IF done THEN "ok" ELSE "running"
        /\ root' = IF done /\ round = 1 THEN Head(stk).node ELSE root
        /\ reroot' = IF done /\ round = 2 THEN Head(stk).node ELSE reroot
Fail == calls' = <<>> /\ result' = "error" /\ UNCHANGED <<root, reroot>>

\* what a step leaves of the parser's counters
Keep == UNCHANGED <<round, openblocks, insidePipe, blocks>>
OpenBlock ==
    /\ openblocks' = openblocks + 1
    /\ blocks' = [blocks EXCEPT !.opened = @ + 1]
    /\ UNCHANGED <<round, insidePipe>>
CallBlock(caller) ==
    Calls(Call(Frame("parseBlock", "peek", NewListNode), caller))

parseBlock ==
    /\ ParseOnly
    /\ At("parseBlock", "peek")
    /\ \E it \in Incoming :
        /\ Lex(it)
        /\ CASE it.type = "EOF" ->
                  /\ tok' = it /\ Keep
                  /\ IF openblocks # 0 THEN Fail
                     ELSE Returns(Head(calls).node)
             [] it.type = "LBrace" -> tok' = NoTok /\ Keep /\ Fail
             [] it.type = "RBrace" ->
                  /\ tok' = NoTok
                  /\ IF openblocks <= 0 THEN Keep /\ Fail
                     ELSE /\ openblocks' = openblocks - 1
                          /\ blocks' = [blocks EXCEPT !.closed = @ + 1]
                          /\ UNCHANGED <<round, insidePipe>>
                          /\ Returns(Head(calls).node)
             [] OTHER ->
                  /\ Len(Head(calls).node.body) < MaxNodes
                  /\ tok' = it /\ Keep
                  /\ Calls(Call(Frame("parseStatement", "next", NewListNode),
                                [Head(calls) EXCEPT !.pc = "stmt"]))

\* it := p.next()
parseStatementFirst ==
    /\ ParseOnly
    /\ At("parseStatement", "next")
    /\ \E it \in Incoming :
        /\ Lex(it) /\ tok' = NoTok /\ Keep
        /\ Calls(Callee([Head(calls) EXCEPT !.it = it, !.pc = "peek"]))

\* next := p.peek() and the choice of the statement; parseFnInv begins by
\* taking the '(' out of the buffer
parseStatement ==
    /\ ParseOnly
    /\ At("parseStatement", "peek")
    /\ \E nx \in Incoming :
        LET it == Head(calls).it IN
        /\ Lex(nx) /\ Keep
        /\ CASE it.type = "For" ->
                  tok' = nx /\ Calls(Callee(Frame("parseFor", "peek", NewNode("for", ""))))
             [] it.type = "If" ->
                  tok' = nx /\ Calls(Callee(Frame("parseIf", "lvalue", NewNode("if", ""))))
             [] it.type = "Fn" ->
                  tok' = nx /\ Calls(Callee(Frame("parseFnDecl", "name", NewNode("fn", ""))))
             [] it.type = "Rfork" ->
                  tok' = nx /\ Calls(Callee(Frame("parseRfork", "flags", NewNode("rfork", ""))))
             [] it.type = "Ident" /\ nx.type = "LParen" ->
                  tok' = NoTok /\ Calls(Callee(Frame("parseFnInv", "args", NewNode("fninv", it.value))))
             [] it.type = "Ident" /\ nx.type # "LParen" ->
                  tok' = nx /\ Calls(Callee(Frame("parseCommand", "loop", NewNode("cmd", it.value))))
             [] OTHER -> tok' = nx /\ Fail

\* One turn of cmdLoop.  The peek that ends getArgument fills the buffer
\* the next turn reads, so the argument is taken here and the token after it
\* is read by the next turn.
parseCommand ==
    /\ ParseOnly
    /\ At("parseCommand", "loop")
    /\ \E it \in Incoming :
        LET n == Head(calls).node IN
        /\ Lex(it)
        /\ UNCHANGED <<round, openblocks, blocks>>
        /\ CASE it.type = "Semicolon" ->
                  tok' = NoTok /\ insidePipe' = FALSE /\ Returns(n)
             [] it.type = "RBrace" ->
                  tok' = it /\ insidePipe' = FALSE /\ Returns(n)
             [] it.type \in {"Ident", "String"} ->
                  /\ Len(n.args) < MaxArgs
                  /\ tok' = NoTok /\ UNCHANGED insidePipe
                  /\ Calls(Callee([Head(calls) EXCEPT !.node.args =
                        Append(@, StringExpr(it.value, it.type = "String"))]))
             [] it.type = "Pipe" ->
                  /\ tok' = NoTok
                  /\ IF insidePipe
                     THEN UNCHANGED insidePipe /\ Returns(n)
                     ELSE /\ insidePipe' = TRUE
                          /\ Calls(Callee(Frame("parsePipe", "peek",
                                [NewNode("pipe", "") EXCEPT !.body = <<n>>])))
             [] it.type = "EOF" ->
                  tok' = it /\ UNCHANGED insidePipe /\ Returns(n)
             [] OTHER ->
                  tok' = it /\ insidePipe' = FALSE /\ Returns(n)

\* One turn of the loop of parsePipe, from its peek; after a command was
\* added with the latch cleared the loop is left and the peek is the one
\* that looks for the semicolon.
parsePipe ==
    /\ ParseOnly
    /\ Running /\ Head(calls).fn = "parsePipe"
    /\ Head(calls).pc \in {"peek", "added"}
    /\ \E it \in Incoming :
        /\ Lex(it) /\ Keep
        /\ IF it.type = "Ident" /\ ~(Head(calls).pc = "added" /\ ~insidePipe)
           THEN /\ tok' = NoTok
                /\ Calls(Call(Frame("parseCommand", "loop", NewNode("cmd", it.value)),
                              [Head(calls) EXCEPT !.pc = "cmd"]))
           ELSE /\ tok' = IF it.type = "Semicolon" THEN NoTok ELSE it
                /\ Returns(Head(calls).node)

\* parseFor up to the block; `for IDENT in $VAR` needs the identifier "in",
\* which no source here holds, so the statement ends in the error of 1072
parseFor ==
    /\ ParseOnly
    /\ At("parseFor", "peek")
    /\ \E it \in Incoming :
        /\ Lex(it)
        /\ CASE it.type = "Ident" ->
                  /\ tok' = NoTok /\ Keep
                  /\ Calls(Callee([Head(calls) EXCEPT !.pc = "in",
                                                      !.node.name = it.value]))
             [] it.type = "LBrace" ->
                  /\ tok' = NoTok /\ OpenBlock
                  /\ CallBlock([Head(calls) EXCEPT !.pc = "block"])
             [] OTHER -> tok' = it /\ Keep /\ Fail

parseForIn ==
    /\ ParseOnly
    /\ At("parseFor", "in")
    /\ \E it \in Incoming :
        /\ Lex(it) /\ tok' = NoTok /\ Keep
        /\ it.type # "Ident" \/ it.value # "in"
        /\ Fail

parseIfLvalue ==
    /\ ParseOnly
    /\ At("parseIf", "lvalue")
    /\ \E it \in Incoming :
        /\ Lex(it) /\ Keep
        /\ IF it.type # "String" THEN tok' = it /\ Fail
           ELSE /\ tok' = NoTok
                /\ Calls(Callee([Head(calls) EXCEPT !.pc = "op",
                        !.node.args = <<StringExpr(it.value, TRUE)>>]))

parseIfOp ==
    /\ ParseOnly
    /\ At("parseIf", "op")
    /\ \E it \in Incoming :
        /\ Lex(it) /\ tok' = NoTok /\ Keep
        /\ IF it.type # "Equal" \/ it.value # "==" THEN Fail
           ELSE Calls(Callee([Head(calls) EXCEPT !.pc = "rvalue",
                                                 !.node.name = it.value]))

parseIfRvalue ==
    /\ ParseOnly
    /\ At("parseIf", "rvalue")
    /\ \E it \in Incoming :
        /\ Lex(it) /\ tok' = NoTok /\ Keep
        /\ IF it.type # "String" THEN Fail
           ELSE Calls(Callee([Head(calls) EXCEPT !.pc = "brace",
                    !.node.args = Append(@, StringExpr(it.value, TRUE))]))

parseIfBlock ==
    /\ ParseOnly
    /\ At("parseIf", "brace")
    /\ \E it \in Incoming :
        /\ Lex(it) /\ tok' = NoTok
        /\ IF it.type # "LBrace" THEN Keep /\ Fail
           ELSE /\ OpenBlock
                /\ CallBlock([Head(calls) EXCEPT !.pc = "block"])

parseIfElse ==
    /\ ParseOnly
    /\ At("parseIf", "else")
    /\ \E it \in Incoming :
        /\ Lex(it) /\ Keep
        /\ IF it.type = "Else"
           THEN /\ tok' = NoTok
                /\ Calls(Call(Frame("parseElse", "next", NewListNode),
                              [Head(calls) EXCEPT !.pc = "elseret"]))
           ELSE tok' = it /\ Returns(Head(calls).node)

\* A faulty parseElse that opens the block without counting it.
parseElseNotCounted ==
    /\ ParseOnly
    /\ At("parseElse", "next")
    /\ \E it \in Incoming :
        /\ Lex(it) /\ tok' = NoTok /\ Keep
        /\ CASE it.type = "LBrace" ->
                  CallBlock([Head(calls) EXCEPT !.pc = "block"])
             [] it.type = "If" ->
                  Calls(Call(Frame("parseIf", "lvalue", NewNode("if", "")),
                             [Head(calls) EXCEPT !.pc = "if"]))
             [] OTHER -> Fail

parseElse ==
    /\ ParseOnly
    /\ At("parseElse", "next")
    /\ \E it \in Incoming :
        /\ Lex(it) /\ tok' = NoTok
        /\ CASE it.type = "LBrace" ->
                  /\ OpenBlock
                  /\ CallBlock([Head(calls) EXCEPT !.pc = "block"])
             [] it.type = "If" ->
                  /\ Keep
                  /\ Calls(Call(Frame("parseIf", "lvalue", NewNode("if", "")),
                                [Head(calls) EXCEPT !.pc = "if"]))
             [] OTHER -> Keep /\ Fail

parseFnDecl ==
    /\ ParseOnly
    /\ At("parseFnDecl", "name")
    /\ \E it \in Incoming :
        /\ Lex(it) /\ tok' = NoTok /\ Keep
        /\ CASE it.type = "Ident" ->
                  Calls(Callee([Head(calls) EXCEPT !.pc = "lparen",
                                                   !.node.name = it.value]))
             [] it.type = "LParen" ->
                  Calls(Callee([Head(calls) EXCEPT !.pc = "args"]))
             [] OTHER -> Fail

parseFnDeclLParen ==
    /\ ParseOnly
    /\ At("parseFnDecl", "lparen")
    /\ \E it \in Incoming :
        /\ Lex(it) /\ tok' = NoTok /\ Keep
        /\ IF it.type # "LParen" THEN Fail
           ELSE Calls(Callee([Head(calls) EXCEPT !.pc = "args"]))

\* parseFnArgs from its first peek, and from the peek after an argument;
\* no source here holds a comma
parseFnArgs ==
    /\ ParseOnly
    /\ At("parseFnDecl", "args")
    /\ \E it \in Incoming :
        /\ Lex(it) /\ tok' = NoTok /\ Keep
        /\ CASE it.type = "RParen" ->
                  Calls(Callee([Head(calls) EXCEPT !.pc = "brace"]))
             [] it.type = "Ident" ->
                  Calls(Callee([Head(calls) EXCEPT !.pc = "argsend",
                        !.node.args = Append(@, StringExpr(it.value, FALSE))]))
             [] OTHER -> Fail

parseFnArgsEnd ==
    /\ ParseOnly
    /\ At("parseFnDecl", "argsend")
    /\ \E it \in Incoming :
        /\ Lex(it) /\ Keep
        /\ IF it.type # "RParen" THEN tok' = it /\ Fail
           ELSE /\ tok' = NoTok
                /\ Calls(Callee([Head(calls) EXCEPT !.pc = "brace"]))

parseFnDeclBlock ==
    /\ ParseOnly
    /\ At("parseFnDecl", "brace")
    /\ \E it \in Incoming :
        /\ Lex(it) /\ tok' = NoTok
        /\ IF it.type # "LBrace" THEN Keep /\ Fail
           ELSE /\ OpenBlock
                /\ CallBlock([Head(calls) EXCEPT !.pc = "block"])

\* One turn of the loop of parseFnInv; as in parseCommand the token after
\* an argument is read by the next turn.
parseFnInv ==
    /\ ParseOnly
    /\ At("parseFnInv", "args")
    /\ \E it \in Incoming :
        /\ Lex(it) /\ Keep
        /\ CASE it.type = "String" ->
                  /\ Len(Head(calls).node.args) < MaxArgs
                  /\ tok' = NoTok
                  /\ Calls(Callee([Head(calls) EXCEPT !.node.args =
                        Append(@, StringExpr(it.value, TRUE))]))
             [] it.type = "RParen" ->
                  /\ tok' = NoTok
                  /\ Calls(Callee([Head(calls) EXCEPT !.pc = "semi"]))
             [] OTHER -> tok' = it /\ Fail

parseFnInvEnd ==
    /\ ParseOnly
    /\ At("parseFnInv", "semi")
    /\ \E it \in Incoming :
        /\ Lex(it) /\ Keep
        /\ tok' = IF it.type = "Semicolon" THEN NoTok ELSE it
        /\ Returns(Head(calls).node)

parseRfork ==
    /\ ParseOnly
    /\ At("parseRfork", "flags")
    /\ \E it \in Incoming :
        /\ Lex(it) /\ tok' = NoTok /\ Keep
        /\ IF it.type # "Ident" THEN Fail
           ELSE Calls(Callee([Head(calls) EXCEPT !.pc = "brace",
                                                 !.node.name = it.value]))

parseRforkBlock ==
    /\ ParseOnly
    /\ At("parseRfork", "brace")
    /\ \E it \in Incoming :
        /\ Lex(it)
        /\ IF it.type = "LBrace"
           THEN /\ tok' = NoTok /\ OpenBlock
                /\ CallBlock([Head(calls) EXCEPT !.pc = "block"])
           ELSE /\ tok' = IF it.type = "Semicolon" THEN NoTok ELSE it
                /\ Keep
                /\ Returns(Head(calls).node)

parseRforkEnd ==
    /\ ParseOnly
    /\ At("parseRfork", "semi")
    /\ \E it \in Incoming :
        /\ Lex(it) /\ Keep
        /\ tok' = IF it.type = "Semicolon" THEN NoTok ELSE it
        /\ Returns(Head(calls).node)

\* The tokens of the string form of a tree.  Tree.String joins the string
\* forms of the nodes with newlines; the string form of a node is the
\* statement as the grammar writes it, and the newline that ends a command
\* or a pipe reaches the parser as the token that ends a command.
ExprToken(e) == Tok(IF e.quoted THEN "String" ELSE "Ident", e.value)
ExprTokens(es) == [i \in 1..Len(es) |-> ExprToken(es[i])]
CmdTokens(c) == <<Tok("Ident", c.name)>> \o ExprTokens(c.args)
RECURSIVE PipeTokens(_)
PipeTokens(cs) ==
    IF Len(cs) = 1 THEN CmdTokens(cs[1])
    ELSE CmdTokens(cs[1]) \o <<Tok("Pipe", "|")>> \o PipeTokens(Tail(cs))

RECURSIVE NodeTokens(_)
RECURSIVE ListTokens(_)
BlockTokens(l) ==
    <<Tok("LBrace", "{")>> \o ListTokens(l) \o <<Tok("RBrace", "}")>>
NodeTokens(n) ==
    CASE n.kind = "cmd" -> CmdTokens(n) \o <<Tok("Semicolon", ";")>>
      [] n.kind = "pipe" -> PipeTokens(n.body) \o <<Tok("Semicolon", ";")>>
      [] n.kind = "for" -> <<Tok("For", "for")>> \o BlockTokens(n.body)
      [] n.kind = "if" ->
           <<Tok("If", "if"), ExprToken(n.args[1]), Tok("Equal", n.name),
             ExprToken(n.args[2])>> \o BlockTokens(n.body)
           \o (IF ~n.has THEN <<>>
               ELSE <<Tok("Else", "else")>>
                    \o (IF n.elseIf THEN NodeTokens(n.els[1])
                        ELSE BlockTokens(n.els)))
      [] n.kind = "fn" ->
           <<Tok("Fn", "fn")>>
           \o (IF n.name = "" THEN <<>> ELSE <<Tok("Ident", n.name)>>)
           \o <<Tok("LParen", "(")>> \o ExprTokens(n.args)
           \o <<Tok("RParen", ")")>> \o BlockTokens(n.body)
      [] n.kind = "fninv" ->
           <<Tok("Ident", n.name), Tok("LParen", "(")>> \o ExprTokens(n.args)
           \o <<Tok("RParen", ")")>>
      [] n.kind = "rfork" ->
           <<Tok("Rfork", "rfork"), Tok("Ident", n.name)>>
           \o (IF n.has THEN BlockTokens(n.body) ELSE <<>>)
ListTokens(l) ==
    IF l = <<>> THEN <<>> ELSE NodeTokens(Head(l)) \o ListTokens(Tail(l))
TreeTokens(tr) == ListTokens(tr.body) \o <<EOF>>

\* Tree.IsEqual: the roots hold equal nodes in the same order
IsEqual(tr, other) == tr.body = other.body

\* NewParser and Parse
NewParser ==
    /\ tok' = NoTok /\ openblocks' = 0 /\ insidePipe' = FALSE
    /\ calls' = <<Frame("parseBlock", "peek", NewListNode),
                  Frame("Parse", "block", NewListNode)>>
    /\ result' = "running"

\* the tree of the source is written out and the text parsed by a new parser
Reparse ==
    /\ ParseOnly
    /\ round = 1 /\ result = "ok"
    /\ round' = 2
    /\ content' = TreeTokens(root)
    /\ NewParser
    /\ braces' = NoBraces /\ blocks' = NoBlocks /\ seen' = NoTok
    /\ UNCHANGED <<lexed, root, reroot>>

InitParse ==
    /\ ScopeIdle /\ PipeIdle /\ LoopIdle /\ WalkIdle /\ CmdIdle /\ ImpIdle /\ AsgIdle /\ RetIdle /\ EnvIdle /\ BindIdle /\ CndIdle
    /\ round = 1 /\ content = <<>> /\ lexed = 0
    /\ tok = NoTok /\ openblocks = 0 /\ insidePipe = FALSE
    /\ calls = <<Frame("parseBlock", "peek", NewListNode),
                 Frame("Parse", "block", NewListNode)>>
    /\ result = "running"
    /\ root = NewListNode /\ reroot = NewListNode
    /\ braces = NoBraces /\ blocks = NoBlocks /\ seen = NoTok

NextParse ==
    \/ parseBlock
    \/ parseStatementFirst
    \/ parseStatement
    \/ parseCommand
    \/ parsePipe
    \/ parseFor
    \/ parseForIn
    \/ parseIfLvalue
    \/ parseIfOp
    \/ parseIfRvalue
    \/ parseIfBlock
    \/ parseIfElse
    \/ parseElse
    \/ parseFnDecl
    \/ parseFnDeclLParen
    \/ parseFnArgs
    \/ parseFnArgsEnd
    \/ parseFnDeclBlock
    \/ parseFnInv
    \/ parseFnInvEnd
    \/ parseRfork
    \/ parseRforkBlock
    \/ parseRforkEnd

SpecParse == InitParse /\ [][NextParse]_vars_all

\* Parse, and then the parse of the string form of the tree it returned
NextReparse ==
    \/ parseBlock
    \/ parseStatementFirst
    \/ parseStatement
    \/ parseCommand
    \/ parsePipe
    \/ parseFor
    \/ parseForIn
    \/ parseIfLvalue
    \/ parseIfOp
    \/ parseIfRvalue
    \/ parseIfBlock
    \/ parseIfElse
    \/ parseElse
    \/ parseFnDecl
    \/ parseFnDeclLParen
    \/ parseFnArgs
    \/ parseFnArgsEnd
    \/ parseFnDeclBlock
    \/ parseFnInv
    \/ parseFnInvEnd
    \/ parseRfork
    \/ parseRforkBlock
    \/ parseRforkEnd
    \/ Reparse

SpecReparse == InitParse /\ [][NextReparse]_vars_all

\* ---------------------------------------------------------------------------
\* Properties of the parser
\* ---------------------------------------------------------------------------

\* the parse function that is reading, and the one that called it
Reading(fn) == Running /\ Head(calls).fn = fn
Caller == calls[2].fn

\* parsePipe returns its PipeNode in this step
PipeReturns == Reading("parsePipe") /\ Len(calls') < Len(calls)

\* a command that began a statement meets a '|' in this step
StatementMeetsPipe ==
    /\ At("parseCommand", "loop") /\ Caller = "parseBlock"
    /\ seen'.type = "Pipe"

\* C23: after parsePipe returns, insidePipe is false, whatever token followed
\* the last '|' or the last command of the pipeline; so a '|' after a command
\* that begins a later statement hands the command over to parsePipe again.
C23_Claim ==
    [][/\ PipeReturns => ~insidePipe'
       /\ StatementMeetsPipe => Reading("parsePipe")']_vars_all

\* the number of commands of the shortest PipeNode of a list of nodes and of
\* the blocks inside them (more than any source holds where there is none)
RECURSIVE ShortestPipe(_)
Least(a, b) == IF a < b THEN a ELSE b
ShortestPipe(l) ==
    IF l = <<>> THEN MaxTokens + 1
    ELSE LET n == Head(l)
             here == IF n.kind = "pipe" THEN Len(n.body)
                     ELSE Least(ShortestPipe(n.body), ShortestPipe(n.els))
         IN  Least(here, ShortestPipe(Tail(l)))

\* parsePipe looks for the command after a '|' and reads something else
PipeWithoutCommand ==
    /\ Reading("parsePipe")
    /\ Head(calls).pc = "peek" \/ insidePipe
    /\ seen'.type # "Ident"

\* C29: every PipeNode of a tree that Parse returned holds at least two
\* commands, and a '|' that no command follows is a parse error.
C29_Claim ==
    /\ [](result = "ok" => ShortestPipe(root.body) >= 2)
    /\ [][PipeWithoutCommand => result' = "error"]_vars_all

\* the steps that open a block: a '{' taken by parseIf, parseElse, parseFor,
\* parseFnDecl or parseRfork; the step that closes one: a '}' taken by
\* parseBlock
Openers == {"parseIf", "parseElse", "parseFor", "parseFnDecl", "parseRfork"}
TakesBrace(ty) == Running /\ seen'.type = ty /\ tok' = NoTok /\ result' # "error"
Balanced == braces.open = braces.close /\ ~braces.low

\* C24: openblocks is never negative; it goes up by one exactly when one of
\* if, else, for, fn and rfork takes the '{' of its block and down by one
\* exactly when parseBlock takes a '}'; a '}' with openblocks <= 0, a '{'
\* where a statement begins and the end of the source with openblocks # 0
\* are errors; a Parse that succeeded read balanced braces and left
\* openblocks at 0.
C24_OpenBlocks ==
    /\ [](/\ openblocks >= 0
          /\ openblocks = blocks.opened - blocks.closed
          /\ result = "ok" => openblocks = 0 /\ Balanced)
    /\ [][/\ openblocks' = openblocks + 1 <=>
               TakesBrace("LBrace") /\ Head(calls).fn \in Openers
          /\ openblocks' = openblocks - 1 <=>
               TakesBrace("RBrace") /\ Head(calls).fn = "parseBlock"
          /\ openblocks' \in {openblocks - 1, openblocks, openblocks + 1}
          /\ TakesBrace("LBrace") => Head(calls).fn \in Openers
          /\ TakesBrace("RBrace") => Head(calls).fn = "parseBlock"
          /\ (Reading("parseBlock") /\ seen'.type = "RBrace" /\ openblocks <= 0)
               => result' = "error"
          /\ (Reading("parseBlock") /\ seen'.type = "LBrace")
               => result' = "error"
          /\ (Reading("parseBlock") /\ seen'.type = "EOF" /\ openblocks # 0)
               => result' = "error"]_vars_all

\* Parse succeeded on `if "s" == "s" { } else { }`
C24_Witness ==
    /\ round = 1 /\ result = "ok" /\ openblocks = 0
    /\ blocks = [opened |-> 2, closed |-> 2]
    /\ Len(root.body) = 1 /\ root.body[1].kind = "if"
    /\ root.body[1].has /\ ~root.body[1].elseIf

\* C26: parse(print(parse(S))) == parse(S) for every source S that Parse
\* accepts: the parse of the string form of the tree succeeds and its tree
\* is equal to the tree of S.
C26_Claim ==
    (round = 2 /\ result # "running") =>
        result = "ok" /\ IsEqual(reroot, root)

\* The same for the sources whose tree holds no PipeNode of one command.
C26_ButForShortPipes ==
    (round = 2 /\ result # "running" /\ ShortestPipe(root.body) >= 2) =>
        result = "ok" /\ IsEqual(reroot, root)

=============================================================================
